---- MODULE Spec2Model ----
(***************************************************************************)
(* A model of the VowSelect backend (src/backend/server.py): the TTLCache, *)
(* the ranking aggregation, vote submission and the photo import jobs with *)
(* their background continuation.                                          *)
(*                                                                         *)
(* Python values are encoded as follows.                                   *)
(*   - str: a sequence of one-character strings, so that startswith and    *)
(*     f-string concatenation are computed on characters;                  *)
(*   - None / a value: the records None and Some(v);                       *)
(*   - dict: a function whose DOMAIN is the set of keys present;           *)
(*   - a collection of the document store: a sequence of documents in      *)
(*     insertion order (the order an unsorted find returns).               *)
(* time.time() is the variable now, which only Tick advances.              *)
(***************************************************************************)
EXTENDS Integers, Sequences, FiniteSets, TLC

VARIABLES
    now,             \* time.time()
    cache,           \* a TTLCache instance driven call by call
    latest,          \* history: per key, the latest set not invalidated since
    lastCall,        \* history: the latest call on cache and what it returned
    rankings_cache,  \* server.py:59
    photos_cache,    \* server.py:60
    photos,          \* db.photos
    votes,           \* db.votes
    import_jobs,     \* db.import_jobs
    rankReqs,        \* calculate_photo_rankings calls in flight
    listReqs,        \* get_room_photos requests in flight
    voteReqs,        \* create_vote / undo_vote requests in flight
    importReqs,      \* import_photos requests in flight
    bgTasks,         \* process_drive_photos_background tasks
    compressQueue    \* compress_photo_background tasks added to BackgroundTasks

vars == <<now, cache, latest, lastCall, rankings_cache, photos_cache, photos,
          votes, import_jobs, rankReqs, listReqs, voteReqs, importReqs, bgTasks,
          compressQueue>>

cacheVars == <<cache, latest, lastCall>>
dbVars == <<photos, votes, import_jobs>>
procVars == <<rankReqs, listReqs, voteReqs, importReqs, bgTasks, compressQueue>>

----------------------------------------------------------------------------
(* Bounds of the model *)

\* seconds by which one Tick advances the clock
TickStep == 15
\* number of Ticks explored
MaxTicks == 2

----------------------------------------------------------------------------
(* Python values *)

None == [some |-> FALSE]
Some(v) == [some |-> TRUE, val |-> v]

EmptyDict == [k \in {} |-> None]
Pop(d, k) == [x \in (DOMAIN d) \ {k} |-> d[x]]
Put(d, k, v) == [x \in (DOMAIN d) \cup {k} |-> IF x = k THEN v ELSE d[x]]
DictGet(d, k, default) == IF k \in DOMAIN d THEN d[k] ELSE default

\* str.startswith
StartsWith_but_last(s, prefix) ==
    /\ Len(prefix) - 1 <= Len(s)
    /\ SubSeq(s, 1, Len(prefix) - 1) = SubSeq(prefix, 1, Len(prefix) - 1)
StartsWith(s, prefix) ==
    /\ Len(prefix) <= Len(s)
    /\ SubSeq(s, 1, Len(prefix)) = prefix

\* the strings "photos:", "rankings:" and ":"
StrPhotos == <<"p", "h", "o", "t", "o", "s", ":">>
StrRankings == <<"r", "a", "n", "k", "i", "n", "g", "s", ":">>
Colon == <<":">>

\* room ids (path and body parameters, arbitrary strings to the cache)
R1 == <<"1">>
R2 == <<"1", "2">>
RoomIds == {R1, R2}

\* f"rankings:{room_id}"
RankingsKey(room_id) == StrRankings \o room_id
\* f"photos:{room_id}:"
PhotosPrefix(room_id) == StrPhotos \o room_id \o Colon
\* f"photos:{room_id}:{skip}:{limit}", skip and limit already formatted
PhotosKey(room_id, skip, limit) == PhotosPrefix(room_id) \o skip \o Colon \o limit

----------------------------------------------------------------------------
(* TTLCache, server.py:27-55 *)

DefaultTtlArg == 30
RankingsTtl == 30
PhotosTtl == 60

TTLCache_init(default_ttl) ==
    [store |-> EmptyDict, expiry |-> EmptyDict, default_ttl |-> default_ttl]

\* the comparison of get: time.time() < self._expiry.get(key, 0)
Fresh_le(c, key, t) == t <= DictGet(c.expiry, key, 0)
Fresh(c, key, t) == t < DictGet(c.expiry, key, 0)

\* get returns (the cache after the call, the value returned)
TTLCache_get_no_evict(c, key, t) ==
    IF key \in DOMAIN c.store /\ Fresh(c, key, t)
    THEN [cache |-> c, value |-> Some(c.store[key])]
    ELSE [cache |-> c, value |-> None]
TTLCache_get(c, key, t) ==
    IF key \in DOMAIN c.store /\ Fresh(c, key, t)
    THEN [cache |-> c, value |-> Some(c.store[key])]
    ELSE [cache |-> [c EXCEPT !.store = Pop(@, key), !.expiry = Pop(@, key)],
          value |-> None]

\* ttl is None or Some(n)
TTLCache_set_ttl_or_default(c, key, value, ttl, t) ==
    [c EXCEPT !.store = Put(@, key, value),
              !.expiry = Put(@, key, t + (IF ttl # None /\ ttl.val # 0 THEN ttl.val
                                          ELSE c.default_ttl))]
TTLCache_set(c, key, value, ttl, t) ==
    [c EXCEPT !.store = Put(@, key, value),
              !.expiry = Put(@, key, t + (IF ttl # None THEN ttl.val
                                          ELSE c.default_ttl))]

TTLCache_invalidate_store_only(c, key) ==
    [c EXCEPT !.store = Pop(@, key)]
TTLCache_invalidate(c, key) ==
    [c EXCEPT !.store = Pop(@, key), !.expiry = Pop(@, key)]

TTLCache_invalidate_prefix(c, prefix) ==
    LET keys == {k \in DOMAIN c.store : StartsWith(k, prefix)}
    IN [c EXCEPT !.store = [k \in (DOMAIN @) \ keys |-> @[k]],
                 !.expiry = [k \in (DOMAIN @) \ keys |-> @[k]]]

----------------------------------------------------------------------------
(* The calls on one TTLCache instance *)

CacheKeys == {PhotosKey(R1, <<"0">>, <<"5">>),
              PhotosKey(R1, <<"5">>, <<"5">>),
              PhotosKey(R2, <<"0">>, <<"5">>)}
CachePrefixes == {PhotosPrefix(R1), PhotosPrefix(R2), StrRankings}
CacheValues == {"v1", "v2"}
TtlArgs == {None, Some(0), Some(20)}

Tick ==
    /\ now < TickStep * MaxTicks
    /\ now' = now + TickStep
    /\ lastCall' = [op |-> "tick"]
    /\ UNCHANGED <<cache, latest, rankings_cache, photos_cache, dbVars, procVars>>

CacheSet(key, value, ttl) ==
    /\ cache' = TTLCache_set(cache, key, value, ttl, now)
    /\ latest' = [latest EXCEPT ![key] =
                    Some([value |-> value, at |-> now,
                          ttl |-> IF ttl # None THEN ttl.val ELSE cache.default_ttl])]
    /\ lastCall' = [op |-> "set", overwrote |-> key \in DOMAIN cache.store]
    /\ UNCHANGED <<now, rankings_cache, photos_cache, dbVars, procVars>>

CacheGet(key) ==
    LET r == TTLCache_get(cache, key, now)
    IN /\ cache' = r.cache
       /\ lastCall' = [op |-> "get", key |-> key, ret |-> r.value,
                        evicted |-> key \in DOMAIN cache.store /\ r.value = None]
       /\ UNCHANGED <<now, latest, rankings_cache, photos_cache, dbVars, procVars>>

CacheInvalidate(key) ==
    /\ cache' = TTLCache_invalidate(cache, key)
    /\ latest' = [latest EXCEPT ![key] = None]
    /\ lastCall' = [op |-> "invalidate", present |-> key \in DOMAIN cache.store]
    /\ UNCHANGED <<now, rankings_cache, photos_cache, dbVars, procVars>>

CacheInvalidatePrefix(prefix) ==
    /\ cache' = TTLCache_invalidate_prefix(cache, prefix)
    /\ latest' = [k \in DOMAIN latest |->
                    IF StartsWith(k, prefix) THEN None ELSE latest[k]]
    /\ lastCall' = [op |-> "invalidate_prefix",
                     removed |-> (DOMAIN cache.store) \ (DOMAIN cache'.store)]
    /\ UNCHANGED <<now, rankings_cache, photos_cache, dbVars, procVars>>

----------------------------------------------------------------------------
(* Documents and queries of the store *)

\* str() of a small non-negative int
DigitChars == <<"0", "1", "2", "3", "4", "5", "6", "7", "8", "9">>
RECURSIVE Str(_)
Str(n) == IF n < 10 THEN <<DigitChars[n + 1]>>
          ELSE Str(n \div 10) \o <<DigitChars[(n % 10) + 1]>>

\* cursor.to_list(length)
ToList(docs, length) ==
    IF Len(docs) <= length THEN docs ELSE SubSeq(docs, 1, length)

\* db.photos.find({"room_id": room_id}), db.votes.find({"room_id": room_id})
FindByRoom(docs, room_id) == SelectSeq(docs, LAMBDA d : d.room_id = room_id)

\* the base64 JPEG compress_image_to_base64 returns (never the empty string)
Payload == <<"j">>

----------------------------------------------------------------------------
(* calculate_photo_rankings, server.py:317-378 *)

PhotosListLimit == 1000
VotesListLimit == 10000

RECURSIVE SumScores(_)
SumScores(vs) == IF vs = <<>> THEN 0 ELSE Head(vs).score + SumScores(Tail(vs))

\* votes_by_photo.get(photo_id, [])
VotesOfPhoto(all_votes, photo_id) ==
    SelectSeq(all_votes, LAMBDA v : v.photo_id = photo_id)

\* sum / len as the fraction it denotes; the literal 0 of a photo without votes
WeightedScore(vs) ==
    IF vs # <<>> THEN [num |-> SumScores(vs), den |-> Len(vs)]
    ELSE [num |-> 0, den |-> 1]

\* comparison of two weighted scores (denominators are positive)
ScoreLess(a, b) == a.num * b.den < b.num * a.den

\* the photos the loop skips: not compressed_data and source_type == "drive"
Skipped(photo) ==
    photo.compressed_data = None /\ photo.source_type = "drive"

PhotoRanking(photo, all_votes) ==
    LET vs == VotesOfPhoto(all_votes, Str(photo._id))
    IN [photo_id |-> Str(photo._id),
        source_type |-> photo.source_type,
        compressed_data |-> photo.compressed_data,
        weighted_score |-> WeightedScore(vs),
        vote_count |-> Len(vs),
        rank |-> 0]

\* list.sort(key=weighted_score, reverse=True): stable, so an element goes
\* behind every element whose key is not smaller
RECURSIVE InsertDesc_unstable(_, _)
InsertDesc_unstable(sorted, x) ==
    IF sorted = <<>> THEN <<x>>
    ELSE IF ~ScoreLess(x.weighted_score, Head(sorted).weighted_score)
         THEN <<x>> \o sorted
         ELSE <<Head(sorted)>> \o InsertDesc_unstable(Tail(sorted), x)

RECURSIVE InsertDesc(_, _)
InsertDesc(sorted, x) ==
    IF sorted = <<>> THEN <<x>>
    ELSE IF ScoreLess(Head(sorted).weighted_score, x.weighted_score)
         THEN <<x>> \o sorted
         ELSE <<Head(sorted)>> \o InsertDesc(Tail(sorted), x)

RECURSIVE SortDesc(_)
SortDesc(rs) ==
    IF rs = <<>> THEN <<>>
    ELSE InsertDesc(SortDesc(SubSeq(rs, 1, Len(rs) - 1)), rs[Len(rs)])

\* for idx, ranking in enumerate(rankings, 1): ranking.rank = idx
AssignRanks(rs) == [i \in 1..Len(rs) |-> [rs[i] EXCEPT !.rank = i]]

\* the list computed on a cache miss from the two reads
Rankings(photo_docs, all_votes) ==
    LET kept == SelectSeq(photo_docs, LAMBDA p : ~Skipped(p))
        unsorted == [i \in 1..Len(kept) |-> PhotoRanking(kept[i], all_votes)]
    IN AssignRanks(SortDesc(unsorted))

\* the vote requests that have been answered (kept with a request as history,
\* not read by the program)
VotesReturned == {v \in DOMAIN voteReqs : voteReqs[v].pc = "done"}

\* the photos of a room inserted by a background task in the batches after
\* which the task has already invalidated the caches (kept with a request as
\* history, not read by the program)
PublishedIds(room_id) ==
    {photos[n]._id : n \in
        {n \in 1..Len(photos) :
            /\ photos[n].room_id = room_id
            /\ \E k \in DOMAIN bgTasks :
                  /\ bgTasks[k].job_id = photos[n].by_job
                  /\ photos[n].index >= bgTasks[k].start_index
                  /\ photos[n].index
                        < bgTasks[k].start_index + bgTasks[k].batch_start}}

IdleRank ==
    [pc |-> "idle", room_id |-> <<>>, started |-> 0, overlaps |-> {},
     photos |-> <<>>, all_votes |-> <<>>, aggregated |-> FALSE, result |-> None,
     published |-> {}, votes_returned |-> {}]

\* the call up to its first await: the cache lookup
RankStart(i, room_id) ==
    LET r == TTLCache_get(rankings_cache, RankingsKey(room_id), now)
        inflight == {j \in DOMAIN rankReqs :
                        rankReqs[j].pc \notin {"idle", "done"}}
    IN /\ rankReqs[i].pc = "idle"
       /\ rankings_cache' = r.cache
       /\ rankReqs' = [rankReqs EXCEPT ![i] =
             [@ EXCEPT !.room_id = room_id, !.started = now,
                       !.overlaps = inflight,
                       !.published = PublishedIds(room_id),
                       !.votes_returned = VotesReturned,
                       !.pc = IF r.value # None THEN "done" ELSE "read_photos",
                       !.result = r.value]]
       /\ UNCHANGED <<now, cacheVars, photos_cache, dbVars, voteReqs,
                      importReqs, bgTasks, compressQueue, listReqs>>

\* the store answers db.photos.find(...).to_list(1000)
RankReadPhotos(i) ==
    /\ rankReqs[i].pc = "read_photos"
    /\ rankReqs' = [rankReqs EXCEPT ![i] =
          [@ EXCEPT !.pc = "read_votes",
                    !.photos = ToList(FindByRoom(photos, rankReqs[i].room_id),
                                      PhotosListLimit)]]
    /\ UNCHANGED <<now, cacheVars, rankings_cache, photos_cache, dbVars,
                   voteReqs, importReqs, bgTasks, compressQueue, listReqs>>

\* the store answers db.votes.find(...).to_list(10000)
RankReadVotes(i) ==
    /\ rankReqs[i].pc = "read_votes"
    /\ rankReqs' = [rankReqs EXCEPT ![i] =
          [@ EXCEPT !.pc = "compute",
                    !.all_votes = ToList(FindByRoom(votes, rankReqs[i].room_id),
                                         VotesListLimit)]]
    /\ UNCHANGED <<now, cacheVars, rankings_cache, photos_cache, dbVars,
                   voteReqs, importReqs, bgTasks, compressQueue, listReqs>>

\* the coroutine resumes: grouping, scoring, sort, ranks, cache write, return
RankFinish(i) ==
    LET rankings == Rankings(rankReqs[i].photos, rankReqs[i].all_votes)
    IN /\ rankReqs[i].pc = "compute"
       /\ rankings_cache' = TTLCache_set(rankings_cache,
                                RankingsKey(rankReqs[i].room_id), rankings,
                                None, now)
       /\ rankReqs' = [rankReqs EXCEPT ![i] =
             [@ EXCEPT !.pc = "done", !.aggregated = TRUE,
                       !.result = Some(rankings)]]
       /\ UNCHANGED <<now, cacheVars, photos_cache, dbVars, voteReqs,
                      importReqs, bgTasks, compressQueue, listReqs>>

----------------------------------------------------------------------------
(* compress_photo_background, server.py:892-911 *)

\* db.photos.update_one({"_id": id}, {"$set": {"compressed_data": ...}})
SetCompressed(docs, id) ==
    [k \in 1..Len(docs) |->
        IF docs[k]._id = id THEN [docs[k] EXCEPT !.compressed_data = Some(Payload)]
        ELSE docs[k]]

\* BackgroundTasks runs the tasks of one response in the order they were
\* added; compress_image_to_base64 raises on a file that is no image, which
\* is logged and leaves the photo as it is
CompressPhotoBackground(q) ==
    /\ compressQueue[q] # <<>>
    /\ photos' = IF Head(compressQueue[q]).file_ok
                 THEN SetCompressed(photos, Head(compressQueue[q]).photo_id)
                 ELSE photos
    /\ compressQueue' = [compressQueue EXCEPT ![q] = Tail(@)]
    /\ UNCHANGED <<now, cacheVars, rankings_cache, photos_cache, votes,
                   import_jobs, rankReqs, listReqs, voteReqs, importReqs, bgTasks>>

----------------------------------------------------------------------------
(* create_vote, server.py:1573-1609, and the unique index of the votes     *)
(* collection, database/init_db.py:306-309                                 *)

ValidScores_with_zero == {-3, -2, -1, 0, 1, 2, 3}
ValidScores == {-3, -2, -1, 1, 2, 3}

SameTriple(v, w) ==
    /\ v.room_id = w.room_id
    /\ v.photo_id = w.photo_id
    /\ v.user_id = w.user_id

\* db.votes.find_one({room_id, photo_id, user_id}): None or the first match
FindOneVote(docs, req) ==
    LET hits == SelectSeq(docs, LAMBDA v : SameTriple(v, req))
    IN IF hits = <<>> THEN None ELSE Some(Head(hits))

\* the unique index on (room_id, photo_id, user_id) rejects the insert
DuplicateKey(docs, doc) == \E k \in 1..Len(docs) : SameTriple(docs[k], doc)

\* db.votes.update_one({"_id": id}, {"$set": {"score": ..., "timestamp": ...}})
UpdateVote(docs, id, score, timestamp) ==
    [k \in 1..Len(docs) |->
        IF docs[k]._id = id
        THEN [docs[k] EXCEPT !.score = score, !.timestamp = timestamp]
        ELSE docs[k]]

IdleVote ==
    [pc |-> "idle", req |-> None, existing_vote |-> None, status |-> 0,
     message |-> ""]

\* validation of the score and the existence lookup
CreateVoteFind(i, req) ==
    /\ voteReqs[i].pc = "idle"
    /\ voteReqs' = [voteReqs EXCEPT ![i] =
          IF req.score \notin ValidScores
          THEN [@ EXCEPT !.pc = "done", !.req = Some(req), !.status = 400]
          ELSE [@ EXCEPT !.pc = "write", !.req = Some(req),
                         !.existing_vote = FindOneVote(votes, req)]]
    /\ UNCHANGED <<now, cacheVars, rankings_cache, photos_cache, dbVars,
                   rankReqs, listReqs, importReqs, bgTasks, compressQueue>>

\* update_one of the vote found, or insert_one of a new vote; a
\* DuplicateKeyError of the insert is not caught and ends the request
CreateVoteWrite(i) ==
    LET r == voteReqs[i].req.val
        doc == [_id |-> Len(votes) + 1, room_id |-> r.room_id,
                photo_id |-> r.photo_id, user_id |-> r.user_id,
                score |-> r.score, timestamp |-> now]
    IN /\ voteReqs[i].pc = "write"
       /\ IF voteReqs[i].existing_vote # None
          THEN /\ votes' = UpdateVote(votes, voteReqs[i].existing_vote.val._id,
                                      r.score, now)
               /\ voteReqs' = [voteReqs EXCEPT ![i].pc = "invalidate",
                                               ![i].message = "Vote updated"]
          ELSE IF DuplicateKey(votes, doc)
          THEN /\ votes' = votes
               /\ voteReqs' = [voteReqs EXCEPT ![i].pc = "done",
                                               ![i].status = 500]
          ELSE /\ votes' = Append(votes, doc)
               /\ voteReqs' = [voteReqs EXCEPT ![i].pc = "invalidate",
                                               ![i].message = "Vote created"]
       /\ UNCHANGED <<now, cacheVars, rankings_cache, photos_cache, photos,
                      import_jobs, rankReqs, listReqs, importReqs, bgTasks, compressQueue>>

\* rankings_cache.invalidate(f"rankings:{room_id}") and the response
CreateVoteReturn(i) ==
    /\ voteReqs[i].pc = "invalidate"
    /\ rankings_cache' = TTLCache_invalidate(rankings_cache,
                             RankingsKey(voteReqs[i].req.val.room_id))
    /\ voteReqs' = [voteReqs EXCEPT ![i].pc = "done", ![i].status = 200]
    /\ UNCHANGED <<now, cacheVars, photos_cache, dbVars, rankReqs, listReqs, importReqs,
                   bgTasks, compressQueue>>

----------------------------------------------------------------------------
(* undo_vote, server.py:1612-1631 *)

\* get_user_votes_in_room: find({room_id, user_id}).sort("timestamp", -1);
\* votes[0] is a vote of the user with the latest timestamp
UserVotes(docs, req) ==
    {k \in 1..Len(docs) : /\ docs[k].room_id = req.room_id
                          /\ docs[k].user_id = req.user_id}
LastVotes(docs, req) ==
    {k \in UserVotes(docs, req) :
        \A o \in UserVotes(docs, req) : docs[o].timestamp <= docs[k].timestamp}

\* db.votes.delete_one({"_id": id})
DeleteOne_none(docs, id) == docs
DeleteOne(docs, id) == SelectSeq(docs, LAMBDA v : v._id # id)

\* the read of the user's votes; 404 when there is none
UndoVoteFind(i, req) ==
    /\ voteReqs[i].pc = "idle"
    /\ IF UserVotes(votes, req) = {}
       THEN voteReqs' = [voteReqs EXCEPT ![i] =
               [@ EXCEPT !.pc = "done", !.req = Some(req), !.status = 404]]
       ELSE \E k \in LastVotes(votes, req) :
               voteReqs' = [voteReqs EXCEPT ![i] =
                  [@ EXCEPT !.pc = "delete", !.req = Some(req),
                            !.existing_vote = Some(votes[k])]]
    /\ UNCHANGED <<now, cacheVars, rankings_cache, photos_cache, dbVars,
                   rankReqs, listReqs, importReqs, bgTasks, compressQueue>>

\* the delete of the last vote
UndoVoteDelete(i) ==
    /\ voteReqs[i].pc = "delete"
    /\ votes' = DeleteOne(votes, voteReqs[i].existing_vote.val._id)
    /\ voteReqs' = [voteReqs EXCEPT ![i].pc = "undo_invalidate"]
    /\ UNCHANGED <<now, cacheVars, rankings_cache, photos_cache, photos,
                   import_jobs, rankReqs, listReqs, importReqs, bgTasks, compressQueue>>

\* rankings_cache.invalidate(f"rankings:{room_id}") and the response
UndoVoteReturn(i) ==
    /\ voteReqs[i].pc = "undo_invalidate"
    /\ rankings_cache' = TTLCache_invalidate(rankings_cache,
                             RankingsKey(voteReqs[i].req.val.room_id))
    /\ voteReqs' = [voteReqs EXCEPT ![i].pc = "done", ![i].status = 200,
                                    ![i].message = "Vote undone"]
    /\ UNCHANGED <<now, cacheVars, photos_cache, dbVars, rankReqs, listReqs, importReqs,
                   bgTasks, compressQueue>>

----------------------------------------------------------------------------
(* import_photos, server.py:1238-1451 *)

\* DRIVE_BATCH_SIZE is read from the environment (server.py:92, default 10);
\* the model runs with a small value
DRIVE_BATCH_SIZE == 2

Min(a, b) == IF a <= b THEN a ELSE b
Max(S) == CHOOSE x \in S : \A y \in S : y <= x

\* db.import_jobs.update_one({"_id": id}, {"$set": ...}), db.photos likewise
UpdateOne_all(docs, id, fields) ==
    [k \in 1..Len(docs) |->
        [f \in DOMAIN docs[k] |->
            IF f \in DOMAIN fields THEN fields[f] ELSE docs[k][f]]]
UpdateOne(docs, id, fields) ==
    [k \in 1..Len(docs) |->
        IF docs[k]._id = id
        THEN [f \in DOMAIN docs[k] |->
                 IF f \in DOMAIN fields THEN fields[f] ELSE docs[k][f]]
        ELSE docs[k]]

\* find_one({"room_id": room_id}, sort=[("index", -1)]) and
\* current_index = max_photo["index"] + 1 if max_photo else 0
NextIndex_zero(docs, room_id) == 0
NextIndex(docs, room_id) ==
    LET rs == FindByRoom(docs, room_id)
    IN IF rs = <<>> THEN 0 ELSE Max({rs[k].index : k \in 1..Len(rs)}) + 1

NewJob_pending(id, room_id, source_type) ==
    [_id |-> id, room_id |-> room_id, source_type |-> source_type,
     status |-> "pending", total_photos |-> 0, processed_photos |-> 0,
     failed_photos |-> None]
NewJob(id, room_id, source_type) ==
    [_id |-> id, room_id |-> room_id, source_type |-> source_type,
     status |-> "processing", total_photos |-> 0, processed_photos |-> 0,
     failed_photos |-> None]

NewPhoto(id, room_id, source_type, compressed_data, index, job_id) ==
    [_id |-> id, room_id |-> room_id, source_type |-> source_type,
     compressed_data |-> compressed_data, by_job |-> job_id, index |-> index]

\* the JSON answer of the handler; an HTTPException has only a status code
Response(code, status, imported_count, total_found, pending_count) ==
    [status_code |-> code, status |-> status, imported_count |-> imported_count,
     total_found |-> total_found, pending_count |-> pending_count]
ErrorResponse(code) == Response(code, "", 0, None, None)

\* files[:DRIVE_BATCH_SIZE] and files[DRIVE_BATCH_SIZE:]
InitialFiles(files) == SubSeq(files, 1, Min(DRIVE_BATCH_SIZE, Len(files)))
RemainingFiles_from_last(files) == SubSeq(files, DRIVE_BATCH_SIZE, Len(files))
RemainingFiles(files) == SubSeq(files, DRIVE_BATCH_SIZE + 1, Len(files))

\* the items the synchronous loop walks
SyncFiles(req) ==
    IF req.source_type = "drive" THEN InitialFiles(req.items) ELSE req.items

IdleImport ==
    [pc |-> "idle", req |-> None, job_id |-> 0, imported_count |-> 0,
     current_index |-> 0, pos |-> 1, tasks |-> <<>>, response |-> None]

\* room = await db.rooms.find_one({"_id": ObjectId(request.room_id)}):
\* ObjectId() raises InvalidId for a string that is not 24 hex digits (the
\* request models take room_id as any str), before the handler's try
ObjectIdValid(req) == req.pre # "bad_id"
RoomFound(req) == req.pre # "no_room"

\* room lookup (404 when missing, the unhandled InvalidId is answered 500)
\* and insert of the job record
ImportStart(i, req) ==
    /\ importReqs[i].pc = "idle"
    /\ IF ~ObjectIdValid(req) \/ ~RoomFound(req)
       THEN /\ importReqs' = [importReqs EXCEPT ![i] =
                  [@ EXCEPT !.pc = "done", !.req = Some(req),
                            !.response = Some(ErrorResponse(
                               IF ~ObjectIdValid(req) THEN 500 ELSE 404))]]
            /\ import_jobs' = import_jobs
       ELSE /\ import_jobs' = Append(import_jobs,
                  NewJob(Len(import_jobs) + 1, req.room_id, req.source_type))
            /\ importReqs' = [importReqs EXCEPT ![i] =
                  [@ EXCEPT !.pc = "prepare", !.req = Some(req),
                            !.job_id = Len(import_jobs) + 1]]
    /\ UNCHANGED <<now, cacheVars, rankings_cache, photos_cache, photos, votes,
                   rankReqs, listReqs, voteReqs, bgTasks, compressQueue>>

\* the checks of the request, the enumeration of the source (an HTTPException
\* or another exception raised here is caught by the handler's except) and
\* the read of the room's current max index
ImportPrepare(i) ==
    LET req == importReqs[i].req.val
    IN /\ importReqs[i].pc = "prepare"
       /\ importReqs' = [importReqs EXCEPT ![i] =
             IF req.pre # "ok" \/ req.items = <<>>
             THEN [@ EXCEPT !.pc = "except"]
             ELSE [@ EXCEPT !.pc = "loop",
                            !.current_index = NextIndex(photos, req.room_id)]]
       /\ UNCHANGED <<now, cacheVars, rankings_cache, photos_cache, dbVars,
                      rankReqs, listReqs, voteReqs, bgTasks, compressQueue>>

\* one pass of the loop over image_paths (local) or initial_files (drive)
ImportItem(i) ==
    LET r == importReqs[i]
        req == r.req.val
        id == Len(photos) + 1
    IN /\ r.pc = "loop"
       /\ r.pos <= Len(SyncFiles(req))
       /\ IF req.source_type = "local"
          THEN /\ photos' = Append(photos,
                     NewPhoto(id, req.room_id, "local", None, r.current_index,
                              r.job_id))
               /\ importReqs' = [importReqs EXCEPT ![i] =
                     [@ EXCEPT !.pos = r.pos + 1,
                               !.tasks = Append(r.tasks,
                                    [photo_id |-> id, file_ok |-> req.items[r.pos]]),
                               !.imported_count = r.imported_count + 1,
                               !.current_index = r.current_index + 1]]
          ELSE IF req.items[r.pos]
          THEN /\ photos' = Append(photos,
                     NewPhoto(id, req.room_id, "drive", Some(Payload),
                              r.current_index, r.job_id))
               /\ importReqs' = [importReqs EXCEPT ![i] =
                     [@ EXCEPT !.pos = r.pos + 1,
                               !.imported_count = r.imported_count + 1,
                               !.current_index = r.current_index + 1]]
          ELSE /\ photos' = photos
               /\ importReqs' = [importReqs EXCEPT ![i].pos = r.pos + 1]
       /\ UNCHANGED <<now, cacheVars, rankings_cache, photos_cache, votes,
                      import_jobs, rankReqs, listReqs, voteReqs, bgTasks, compressQueue>>

NewTask(job_id, room_id, remaining_files, start_index, already_processed, batch_size) ==
    [job_id |-> job_id, room_id |-> room_id,
     remaining_files |-> remaining_files, start_index |-> start_index,
     already_processed |-> already_processed, batch_size |-> batch_size,
     pc |-> "items", batch_start |-> 0, pos |-> 1, processed |-> 0,
     failed |-> 0, current_index |-> start_index]

\* after the loop: a drive import with remaining files updates the job,
\* creates the background task and returns; every other import marks the job
\* completed
ImportAfterLoop(i) ==
    LET r == importReqs[i]
        req == r.req.val
        remaining_files == RemainingFiles(req.items)
        total_found == Len(req.items)
    IN /\ r.pc = "loop"
       /\ r.pos > Len(SyncFiles(req))
       /\ IF req.source_type = "drive" /\ remaining_files # <<>>
          THEN /\ import_jobs' = UpdateOne(import_jobs, r.job_id,
                     [status |-> "processing",
                                          total_photos |-> total_found,
                                          processed_photos |-> r.imported_count])
               /\ bgTasks' = Append(bgTasks,
                     NewTask(r.job_id, req.room_id, remaining_files,
                             r.current_index, r.imported_count, DRIVE_BATCH_SIZE))
               /\ importReqs' = [importReqs EXCEPT ![i] =
                     [@ EXCEPT !.pc = "done",
                               !.response = Some(Response(200, "processing",
                                    r.imported_count, Some(total_found),
                                    Some(Len(remaining_files))))]]
          ELSE /\ import_jobs' = UpdateOne(import_jobs, r.job_id,
                     [status |-> "completed",
                                          total_photos |-> r.imported_count,
                                          processed_photos |-> r.imported_count])
               /\ bgTasks' = bgTasks
               /\ importReqs' = [importReqs EXCEPT ![i].pc = "return"]
       /\ UNCHANGED <<now, cacheVars, rankings_cache, photos_cache, photos, votes,
                      rankReqs, listReqs, voteReqs, compressQueue>>

\* cache invalidation and the response of a completed import; the compress
\* tasks added to BackgroundTasks start once the response is sent
ImportReturn(i) ==
    LET r == importReqs[i]
        req == r.req.val
    IN /\ r.pc = "return"
       /\ photos_cache' = TTLCache_invalidate_prefix(photos_cache,
                               PhotosPrefix(req.room_id))
       /\ rankings_cache' = TTLCache_invalidate(rankings_cache,
                               RankingsKey(req.room_id))
       /\ compressQueue' = IF r.tasks = <<>> THEN compressQueue
                           ELSE Append(compressQueue, r.tasks)
       /\ importReqs' = [importReqs EXCEPT ![i] =
             [@ EXCEPT !.pc = "done", !.tasks = <<>>,
                       !.response = Some(Response(200, "completed",
                                         r.imported_count, None, None))]]
       /\ UNCHANGED <<now, cacheVars, dbVars, rankReqs, listReqs, voteReqs, bgTasks>>

\* except Exception: the job is marked failed and HTTPException(500) is raised
ImportExcept(i) ==
    /\ importReqs[i].pc = "except"
    /\ import_jobs' = UpdateOne(import_jobs, importReqs[i].job_id,
                         [status |-> "failed"])
    /\ importReqs' = [importReqs EXCEPT ![i] =
          [@ EXCEPT !.pc = "done", !.tasks = <<>>,
                    !.response = Some(ErrorResponse(500))]]
    /\ UNCHANGED <<now, cacheVars, rankings_cache, photos_cache, photos, votes,
                   rankReqs, listReqs, voteReqs, bgTasks, compressQueue>>

----------------------------------------------------------------------------
(* get_room_photos, server.py:1475-1508 *)

\* ready_filter: room_id and compressed_data {"$exists": True, "$ne": None}
ReadyFilter_room_only(doc, room_id) == doc.room_id = room_id
ReadyFilter(doc, room_id) ==
    doc.room_id = room_id /\ doc.compressed_data # None

\* .sort("index", 1): insertion into a list ascending by index
RECURSIVE InsertAsc(_, _)
InsertAsc(doc, sorted) ==
    IF sorted = <<>> THEN <<doc>>
    ELSE IF doc.index < Head(sorted).index THEN <<doc>> \o sorted
    ELSE <<Head(sorted)>> \o InsertAsc(doc, Tail(sorted))

RECURSIVE SortAsc(_)
SortAsc(docs) ==
    IF docs = <<>> THEN <<>>
    ELSE InsertAsc(docs[Len(docs)], SortAsc(SubSeq(docs, 1, Len(docs) - 1)))

\* .skip(skip).limit(limit).to_list(limit)
SkipLimit(docs, skip, limit) ==
    ToList(SubSeq(docs, skip + 1, Min(skip + limit, Len(docs))), limit)

\* db.photos.find(ready_filter).sort("index", 1).skip(skip).limit(limit)
FindReadyPage(docs, room_id, skip, limit) ==
    SkipLimit(SortAsc(SelectSeq(docs, LAMBDA d : ReadyFilter(d, room_id))),
              skip, limit)

\* db.photos.count_documents(ready_filter)
CountReady(docs, room_id) ==
    Len(SelectSeq(docs, LAMBDA d : ReadyFilter(d, room_id)))

IdleList ==
    [pc |-> "idle", room_id |-> <<>>, skip |-> 0, limit |-> 0, total |-> 0,
     photos |-> <<>>, cached |-> FALSE, result |-> None, published |-> {}]

\* the read of photos_cache; a cached answer is returned as it is
ListStart(i, room_id, skip, limit) ==
    LET r == TTLCache_get(photos_cache, PhotosKey(room_id, Str(skip), Str(limit)),
                          now)
    IN /\ listReqs[i].pc = "idle"
       /\ photos_cache' = r.cache
       /\ listReqs' = [listReqs EXCEPT ![i] =
             IF r.value # None
             THEN [@ EXCEPT !.pc = "done", !.room_id = room_id, !.skip = skip,
                            !.limit = limit, !.cached = TRUE, !.result = r.value,
                            !.published = PublishedIds(room_id)]
             ELSE [@ EXCEPT !.pc = "count", !.room_id = room_id, !.skip = skip,
                            !.limit = limit,
                            !.published = PublishedIds(room_id)]]
       /\ UNCHANGED <<now, cacheVars, rankings_cache, dbVars, rankReqs, voteReqs,
                      importReqs, bgTasks, compressQueue>>

\* total = await db.photos.count_documents(ready_filter)
ListCount(i) ==
    /\ listReqs[i].pc = "count"
    /\ listReqs' = [listReqs EXCEPT ![i] =
          [@ EXCEPT !.pc = "find",
                    !.total = CountReady(photos, listReqs[i].room_id)]]
    /\ UNCHANGED <<now, cacheVars, rankings_cache, photos_cache, dbVars, rankReqs,
                   voteReqs, importReqs, bgTasks, compressQueue>>

\* photos = await db.photos.find(ready_filter).sort(...).skip(...).limit(...)
ListFind(i) ==
    /\ listReqs[i].pc = "find"
    /\ listReqs' = [listReqs EXCEPT ![i] =
          [@ EXCEPT !.pc = "return",
                    !.photos = FindReadyPage(photos, listReqs[i].room_id,
                                             listReqs[i].skip, listReqs[i].limit)]]
    /\ UNCHANGED <<now, cacheVars, rankings_cache, photos_cache, dbVars, rankReqs,
                   voteReqs, importReqs, bgTasks, compressQueue>>

\* the result is built, stored in photos_cache and returned
ListReturn(i) ==
    LET r == listReqs[i]
        result == [photos |-> r.photos, total |-> r.total, skip |-> r.skip,
                   limit |-> r.limit]
    IN /\ r.pc = "return"
       /\ photos_cache' = TTLCache_set(photos_cache,
             PhotosKey(r.room_id, Str(r.skip), Str(r.limit)), result, None, now)
       /\ listReqs' = [listReqs EXCEPT ![i] =
             [@ EXCEPT !.pc = "done", !.result = Some(result)]]
       /\ UNCHANGED <<now, cacheVars, rankings_cache, dbVars, rankReqs, voteReqs,
                      importReqs, bgTasks, compressQueue>>

----------------------------------------------------------------------------
(* upload_photos_json, server.py:1055-1140; upload_photos, server.py:1143- *)
(* 1235, has the same steps on the files of a multipart request.  The      *)
(* requests share the slots of importReqs.                                 *)

\* room lookup (404 when missing, the unhandled InvalidId is answered 500)
\* and insert of the job record
UploadStart(i, req) ==
    /\ importReqs[i].pc = "idle"
    /\ IF ~ObjectIdValid(req) \/ ~RoomFound(req)
       THEN /\ importReqs' = [importReqs EXCEPT ![i] =
                  [@ EXCEPT !.pc = "done", !.req = Some(req),
                            !.response = Some(ErrorResponse(
                               IF ~ObjectIdValid(req) THEN 500 ELSE 404))]]
            /\ import_jobs' = import_jobs
       ELSE /\ import_jobs' = Append(import_jobs,
                  NewJob(Len(import_jobs) + 1, req.room_id, "upload"))
            /\ importReqs' = [importReqs EXCEPT ![i] =
                  [@ EXCEPT !.pc = "u_prepare", !.req = Some(req),
                            !.job_id = Len(import_jobs) + 1]]
    /\ UNCHANGED <<now, cacheVars, rankings_cache, photos_cache, photos, votes,
                   rankReqs, listReqs, voteReqs, bgTasks, compressQueue>>

\* the read of the room's current max index
UploadPrepare(i) ==
    /\ importReqs[i].pc = "u_prepare"
    /\ importReqs' = [importReqs EXCEPT ![i] =
          [@ EXCEPT !.pc = "u_loop",
                    !.current_index =
                        NextIndex(photos, importReqs[i].req.val.room_id)]]
    /\ UNCHANGED <<now, cacheVars, rankings_cache, photos_cache, dbVars,
                   rankReqs, listReqs, voteReqs, bgTasks, compressQueue>>

\* one pass of the loop: the photo is compressed inline; one that fails to
\* compress is skipped, the others are inserted with their compressed_data
UploadItem_gap(i) ==
    LET r == importReqs[i]
        req == r.req.val
    IN /\ r.pc = "u_loop"
       /\ r.pos <= Len(req.items)
       /\ photos' = IF req.items[r.pos]
                     THEN Append(photos,
                             NewPhoto(Len(photos) + 1, req.room_id, "upload",
                                      Some(Payload), r.current_index, r.job_id))
                     ELSE photos
       /\ importReqs' = [importReqs EXCEPT ![i] =
             [@ EXCEPT !.pos = r.pos + 1,
                       !.imported_count = r.imported_count
                                            + (IF req.items[r.pos] THEN 1 ELSE 0),
                       !.current_index = r.current_index + 1]]
       /\ UNCHANGED <<now, cacheVars, rankings_cache, photos_cache, votes,
                      import_jobs, rankReqs, listReqs, voteReqs, bgTasks, compressQueue>>
UploadItem(i) ==
    LET r == importReqs[i]
        req == r.req.val
    IN /\ r.pc = "u_loop"
       /\ r.pos <= Len(req.items)
       /\ IF req.items[r.pos]
          THEN /\ photos' = Append(photos,
                     NewPhoto(Len(photos) + 1, req.room_id, "upload",
                              Some(Payload), r.current_index, r.job_id))
               /\ importReqs' = [importReqs EXCEPT ![i] =
                     [@ EXCEPT !.pos = r.pos + 1,
                               !.imported_count = r.imported_count + 1,
                               !.current_index = r.current_index + 1]]
          ELSE /\ photos' = photos
               /\ importReqs' = [importReqs EXCEPT ![i].pos = r.pos + 1]
       /\ UNCHANGED <<now, cacheVars, rankings_cache, photos_cache, votes,
                      import_jobs, rankReqs, listReqs, voteReqs, bgTasks, compressQueue>>

\* after the loop the job is marked completed
UploadAfterLoop(i) ==
    LET r == importReqs[i]
    IN /\ r.pc = "u_loop"
       /\ r.pos > Len(r.req.val.items)
       /\ import_jobs' = UpdateOne(import_jobs, r.job_id,
             [status |-> "completed", total_photos |-> r.imported_count,
              processed_photos |-> r.imported_count])
       /\ importReqs' = [importReqs EXCEPT ![i].pc = "u_return"]
       /\ UNCHANGED <<now, cacheVars, rankings_cache, photos_cache, photos, votes,
                      rankReqs, listReqs, voteReqs, bgTasks, compressQueue>>

\* the caches of the room are invalidated and the answer is returned
UploadReturn(i) ==
    LET r == importReqs[i]
    IN /\ r.pc = "u_return"
       /\ photos_cache' = TTLCache_invalidate_prefix(photos_cache,
                               PhotosPrefix(r.req.val.room_id))
       /\ rankings_cache' = TTLCache_invalidate(rankings_cache,
                               RankingsKey(r.req.val.room_id))
       /\ importReqs' = [importReqs EXCEPT ![i] =
             [@ EXCEPT !.pc = "done",
                       !.response = Some(Response(200, "completed",
                                         r.imported_count, None, None))]]
       /\ UNCHANGED <<now, cacheVars, dbVars, rankReqs, listReqs, voteReqs, bgTasks,
                      compressQueue>>

\* a store call of the handler raises inside its try: the read of the max
\* index, an insert_one of the loop or the update_one after the loop
ImportFail(i) ==
    /\ importReqs[i].pc \in {"prepare", "loop"}
    /\ importReqs' = [importReqs EXCEPT ![i].pc = "except"]
    /\ UNCHANGED <<now, cacheVars, rankings_cache, photos_cache, dbVars,
                   rankReqs, listReqs, voteReqs, bgTasks, compressQueue>>

\* the same in an upload handler (there also await file.read())
UploadFail(i) ==
    /\ importReqs[i].pc \in {"u_prepare", "u_loop"}
    /\ importReqs' = [importReqs EXCEPT ![i].pc = "u_except"]
    /\ UNCHANGED <<now, cacheVars, rankings_cache, photos_cache, dbVars,
                   rankReqs, listReqs, voteReqs, bgTasks, compressQueue>>

\* except Exception of an upload handler: the job is marked failed and
\* HTTPException(500) is raised
UploadExcept_silent(i) ==
    /\ importReqs[i].pc = "u_except"
    /\ importReqs' = [importReqs EXCEPT ![i] =
          [@ EXCEPT !.pc = "done", !.response = Some(ErrorResponse(500))]]
    /\ UNCHANGED <<now, cacheVars, rankings_cache, photos_cache, dbVars,
                   rankReqs, listReqs, voteReqs, bgTasks, compressQueue>>
UploadExcept(i) ==
    /\ importReqs[i].pc = "u_except"
    /\ import_jobs' = UpdateOne(import_jobs, importReqs[i].job_id,
                         [status |-> "failed"])
    /\ importReqs' = [importReqs EXCEPT ![i] =
          [@ EXCEPT !.pc = "done", !.response = Some(ErrorResponse(500))]]
    /\ UNCHANGED <<now, cacheVars, rankings_cache, photos_cache, photos, votes,
                   rankReqs, listReqs, voteReqs, bgTasks, compressQueue>>

----------------------------------------------------------------------------
(* process_drive_photos_background, server.py:914-1025 *)

\* already_processed + processed, as written to processed_photos
ProcessedOnlyTask(already_processed, processed) == processed
ProcessedSoFar_twice(already_processed, processed) ==
    already_processed + already_processed + processed
ProcessedSoFar(already_processed, processed) == already_processed + processed

\* final_status = "completed" if failed < total_remaining else "failed"
FinalStatus_processing(failed, total_remaining) == "processing"
FinalStatus(failed, total_remaining) ==
    IF failed < total_remaining THEN "completed" ELSE "failed"

\* the last position of the batch remaining_files[batch_start:batch_start + batch_size]
BatchEnd_all(t) == Len(t.remaining_files)
BatchEnd(t) == Min(t.batch_start + t.batch_size, Len(t.remaining_files))

\* except Exception: failed += 1; current_index += 1; continue
AfterFailedItem_keep_index(t) == [t EXCEPT !.pos = t.pos + 1, !.failed = t.failed + 1]
AfterFailedItem(t) ==
    [t EXCEPT !.pos = t.pos + 1, !.failed = t.failed + 1,
              !.current_index = t.current_index + 1]

\* one pass of the loop over the batch: download, compress, insert; a failure
\* is counted and the index still advances
TaskItem(k) ==
    LET t == bgTasks[k]
    IN /\ t.pc = "items"
       /\ t.pos <= BatchEnd(t)
       /\ IF t.remaining_files[t.pos]
          THEN /\ photos' = Append(photos,
                     NewPhoto(Len(photos) + 1, t.room_id, "drive", Some(Payload),
                              t.current_index, t.job_id))
               /\ bgTasks' = [bgTasks EXCEPT ![k] =
                     [@ EXCEPT !.pos = t.pos + 1,
                               !.processed = t.processed + 1,
                               !.current_index = t.current_index + 1]]
          ELSE /\ photos' = photos
               /\ bgTasks' = [bgTasks EXCEPT ![k] = AfterFailedItem(t)]
       /\ UNCHANGED <<now, cacheVars, rankings_cache, photos_cache, votes,
                      import_jobs, rankReqs, listReqs, voteReqs, importReqs, compressQueue>>

\* the update of the job's progress after the batch
TaskBatchUpdate(k) ==
    LET t == bgTasks[k]
    IN /\ t.pc = "items"
       /\ t.pos > BatchEnd(t)
       /\ import_jobs' = UpdateOne(import_jobs, t.job_id,
             [processed_photos |-> ProcessedSoFar(t.already_processed, t.processed),
                total_photos |-> t.already_processed + Len(t.remaining_files)
                                   - t.failed,
                failed_photos |-> Some(t.failed)])
       /\ bgTasks' = [bgTasks EXCEPT ![k].pc = "invalidate"]
       /\ UNCHANGED <<now, cacheVars, rankings_cache, photos_cache, photos, votes,
                      rankReqs, listReqs, voteReqs, importReqs, compressQueue>>

\* the cache invalidation after the batch and the sleep before the next one
TaskBatchInvalidate(k) ==
    LET t == bgTasks[k]
    IN /\ t.pc = "invalidate"
       /\ photos_cache' = TTLCache_invalidate_prefix(photos_cache,
                               PhotosPrefix(t.room_id))
       /\ rankings_cache' = TTLCache_invalidate(rankings_cache,
                               RankingsKey(t.room_id))
       /\ bgTasks' = [bgTasks EXCEPT ![k] =
             [@ EXCEPT !.batch_start = t.batch_start + t.batch_size,
                       !.pc = IF t.batch_start + t.batch_size
                                   < Len(t.remaining_files)
                              THEN "items" ELSE "final"]]
       /\ UNCHANGED <<now, cacheVars, dbVars, rankReqs, listReqs, voteReqs, importReqs,
                      compressQueue>>

\* the final update of the job
TaskFinal(k) ==
    LET t == bgTasks[k]
    IN /\ t.pc = "final"
       /\ import_jobs' = UpdateOne(import_jobs, t.job_id,
             [status |-> FinalStatus(t.failed, Len(t.remaining_files)),
                processed_photos |-> ProcessedSoFar(t.already_processed, t.processed),
                total_photos |-> t.already_processed + t.processed,
                failed_photos |-> Some(t.failed)])
       /\ bgTasks' = [bgTasks EXCEPT ![k].pc = "done"]
       /\ UNCHANGED <<now, cacheVars, rankings_cache, photos_cache, photos, votes,
                      rankReqs, listReqs, voteReqs, importReqs, compressQueue>>

\* except Exception at the top level of the task: the job is marked failed
TaskCrashFields_reset == [status |-> "failed", processed_photos |-> 0]
TaskCrashFields == [status |-> "failed"]

\* a top-level failure: GoogleDriveService cannot be built before the first
\* batch, or the update of the job after a batch or the final update raises
TaskCrash(k) ==
    LET t == bgTasks[k]
    IN /\ \/ t.pc = "items" /\ t.batch_start = 0 /\ t.pos = 1
          \/ t.pc = "items" /\ t.pos > BatchEnd(t)
          \/ t.pc = "final"
       /\ import_jobs' = UpdateOne(import_jobs, t.job_id, TaskCrashFields)
       /\ bgTasks' = [bgTasks EXCEPT ![k].pc = "crashed"]
       /\ UNCHANGED <<now, cacheVars, rankings_cache, photos_cache, photos, votes,
                      rankReqs, listReqs, voteReqs, importReqs, compressQueue>>

\* a step of task k that is not a failure
TaskStep(k) ==
    /\ k \in DOMAIN bgTasks
    /\ \/ TaskItem(k)
       \/ TaskBatchUpdate(k)
       \/ TaskBatchInvalidate(k)
       \/ TaskFinal(k)

----------------------------------------------------------------------------
(* Initial states *)

\* the module-level globals of server.py
InitGlobals ==
    /\ now = 0
    /\ rankings_cache = TTLCache_init(RankingsTtl)
    /\ photos_cache = TTLCache_init(PhotosTtl)

\* the caches after a listing and a ranking of room "1" have been served
WarmPhotosCache ==
    TTLCache_set(TTLCache_init(PhotosTtl), PhotosKey(R1, <<"0">>, <<"5">>),
                 "v1", None, 0)
WarmRankingsCache ==
    TTLCache_set(TTLCache_init(RankingsTtl), RankingsKey(R1), "v1", None, 0)

InitCacheUnderTest ==
    /\ cache = TTLCache_init(DefaultTtlArg)
    /\ latest = [k \in CacheKeys |-> None]
    /\ lastCall = [op |-> "init"]

InitCommon ==
    /\ InitGlobals
    /\ InitCacheUnderTest
    /\ photos = <<>>
    /\ votes = <<>>
    /\ import_jobs = <<>>
    /\ rankReqs = <<>>
    /\ listReqs = <<>>
    /\ voteReqs = <<>>
    /\ importReqs = <<>>
    /\ bgTasks = <<>>
    /\ compressQueue = <<>>

NextCache ==
    \/ Tick
    \/ \E k \in CacheKeys, v \in CacheValues, ttl \in TtlArgs : CacheSet(k, v, ttl)
    \/ \E k \in CacheKeys : CacheGet(k)
    \/ \E k \in CacheKeys : CacheInvalidate(k)
    \/ \E p \in CachePrefixes : CacheInvalidatePrefix(p)

SpecCache == InitCommon /\ [][NextCache]_vars

\* the same calls on two keys only, one page of each room
TwoKeys == {PhotosKey(R1, <<"0">>, <<"5">>), PhotosKey(R2, <<"0">>, <<"5">>)}

NextCacheTwoKeys ==
    \/ Tick
    \/ \E k \in TwoKeys, v \in CacheValues, ttl \in TtlArgs : CacheSet(k, v, ttl)
    \/ \E k \in TwoKeys : CacheGet(k)
    \/ \E k \in TwoKeys : CacheInvalidate(k)
    \/ \E p \in CachePrefixes : CacheInvalidatePrefix(p)

SpecCacheTwoKeys == InitCommon /\ [][NextCacheTwoKeys]_vars

----------------------------------------------------------------------------
(* Rankings over a populated store: rooms whose photos came from earlier   *)
(* imports (a local photo is inserted without compressed_data and its      *)
(* compression is still queued, server.py:1279-1291; drive and upload      *)
(* photos are inserted compressed, server.py:1101-1110, 1375-1387) and     *)
(* whose votes came from earlier create_vote requests.                     *)

\* photos in the store
MaxPhotos == 2
\* votes in the store
MaxVotes == 2

SourceTypes == {"local", "drive", "upload"}
UserIds == {"u1", "u2"}
StoredScores == {-3, 3}

\* the room ranked holds photos of every source, the local ones from image
\* files (TRUE) or from files that are no images (FALSE); the other room holds
\* photos too
PhotoKinds == ({R1} \X SourceTypes \X {TRUE})
              \cup {<<R1, "local", FALSE>>, <<R2, "local", TRUE>>}
PhotoKindLists == UNION {[1..n -> PhotoKinds] : n \in 0..MaxPhotos}

StoredPhotos(kinds) ==
    [i \in 1..Len(kinds) |->
        [_id |-> i, room_id |-> kinds[i][1], source_type |-> kinds[i][2],
         compressed_data |-> IF kinds[i][2] = "local" THEN None ELSE Some(Payload),
         by_job |-> 0,
         index |-> Cardinality({j \in 1..(i - 1) : kinds[j][1] = kinds[i][1]})]]

\* one response per room with local photos still holds their compress tasks
RECURSIVE QueuesOf(_, _, _)
QueuesOf(docs, ok, rooms) ==
    IF rooms = {} THEN <<>>
    ELSE LET room == CHOOSE r \in rooms : \A o \in rooms : Len(r) <= Len(o)
             locals == SelectSeq(docs, LAMBDA p : p.room_id = room
                                                   /\ p.source_type = "local")
             q == [k \in 1..Len(locals) |->
                     [photo_id |-> locals[k]._id, file_ok |-> ok[locals[k]._id]]]
         IN (IF q = <<>> THEN <<>> ELSE <<q>>) \o QueuesOf(docs, ok, rooms \ {room})

\* who voted what: a partial assignment of scores to (photo, user), at most
\* MaxVotes of them, stored in (photo, user) order under the photo's room
VoteSlots(docs) == {<<p, u>> : p \in 1..Len(docs), u \in UserIds}
VoteChoices(docs) ==
    {S \in SUBSET (VoteSlots(docs) \X StoredScores) :
        /\ Cardinality(S) <= MaxVotes
        /\ \A a, b \in S : a[1] = b[1] => a = b}

RECURSIVE StoredVotes(_, _, _)
StoredVotes(docs, S, n) ==
    IF S = {} THEN <<>>
    ELSE LET a == CHOOSE x \in S : \A y \in S :
                     \/ x[1][1] < y[1][1]
                     \/ (x[1][1] = y[1][1] /\ (x[1][2] = "u1" \/ y[1][2] = "u2"))
         IN <<[_id |-> n, room_id |-> docs[a[1][1]].room_id,
               photo_id |-> Str(a[1][1]), user_id |-> a[1][2],
               score |-> a[2], timestamp |-> 0]>>
            \o StoredVotes(docs, S \ {a}, n + 1)

InitRank ==
    /\ InitGlobals
    /\ InitCacheUnderTest
    /\ \E kinds \in PhotoKindLists :
          /\ photos = StoredPhotos(kinds)
          /\ compressQueue = QueuesOf(StoredPhotos(kinds),
                                     [k \in 1..Len(kinds) |-> kinds[k][3]], RoomIds)
          /\ \E S \in VoteChoices(StoredPhotos(kinds)) :
                votes = StoredVotes(StoredPhotos(kinds), S, 1)
    /\ import_jobs = <<>>
    /\ rankReqs = [i \in {1} |-> IdleRank]
    /\ listReqs = <<>>
    /\ voteReqs = <<>>
    /\ importReqs = <<>>
    /\ bgTasks = <<>>

NextRank ==
    \/ \E i \in DOMAIN rankReqs, room_id \in RoomIds : RankStart(i, room_id)
    \/ \E i \in DOMAIN rankReqs : RankReadPhotos(i)
    \/ \E i \in DOMAIN rankReqs : RankReadVotes(i)
    \/ \E i \in DOMAIN rankReqs : RankFinish(i)
    \/ \E q \in DOMAIN compressQueue : CompressPhotoBackground(q)

SpecRank == InitRank /\ [][NextRank]_vars

----------------------------------------------------------------------------
(* Concurrent ranking requests and a vote submission over one room with a  *)
(* ready photo, with the clock running                                     *)

RankVoteRequests ==
    [room_id : {R1}, photo_id : {Str(1)}, user_id : {"u1"}, score : {3}]

InitRankConc ==
    /\ InitGlobals
    /\ InitCacheUnderTest
    /\ photos = StoredPhotos(<< <<R1, "upload", TRUE>> >>)
    /\ votes = <<>>
    /\ import_jobs = <<>>
    /\ rankReqs = [i \in {1, 2} |-> IdleRank]
    /\ listReqs = <<>>
    /\ voteReqs = [i \in {1} |-> IdleVote]
    /\ importReqs = <<>>
    /\ bgTasks = <<>>
    /\ compressQueue = <<>>

NextRankConc ==
    \/ Tick
    \/ \E i \in DOMAIN rankReqs : RankStart(i, R1)
    \/ \E i \in DOMAIN rankReqs : RankReadPhotos(i)
    \/ \E i \in DOMAIN rankReqs : RankReadVotes(i)
    \/ \E i \in DOMAIN rankReqs : RankFinish(i)
    \/ \E i \in DOMAIN voteReqs, req \in RankVoteRequests : CreateVoteFind(i, req)
    \/ \E i \in DOMAIN voteReqs : CreateVoteWrite(i)
    \/ \E i \in DOMAIN voteReqs : CreateVoteReturn(i)

SpecRankConc == InitRankConc /\ [][NextRankConc]_vars

----------------------------------------------------------------------------
(* Ranking requests with a vote submission and an undo by the same user    *)
(* over one room with a ready photo, voted by that user or not yet         *)

UndoRequests == [room_id : {R1}, user_id : {"u1"}]

InitRankVote ==
    /\ InitGlobals
    /\ InitCacheUnderTest
    /\ photos = StoredPhotos(<< <<R1, "upload", TRUE>> >>)
    /\ \E S \in {{}, {<< <<1, "u1">>, -3 >>}} :
          votes = StoredVotes(photos, S, 1)
    /\ import_jobs = <<>>
    /\ rankReqs = [i \in {1, 2} |-> IdleRank]
    /\ listReqs = <<>>
    /\ voteReqs = [i \in {1, 2} |-> IdleVote]
    /\ importReqs = <<>>
    /\ bgTasks = <<>>
    /\ compressQueue = <<>>

NextRankVote ==
    \/ \E i \in DOMAIN rankReqs : RankStart(i, R1)
    \/ \E i \in DOMAIN rankReqs : RankReadPhotos(i)
    \/ \E i \in DOMAIN rankReqs : RankReadVotes(i)
    \/ \E i \in DOMAIN rankReqs : RankFinish(i)
    \/ \E i \in DOMAIN voteReqs, req \in RankVoteRequests : CreateVoteFind(i, req)
    \/ \E i \in DOMAIN voteReqs : CreateVoteWrite(i)
    \/ \E i \in DOMAIN voteReqs : CreateVoteReturn(i)
    \/ \E i \in DOMAIN voteReqs, req \in UndoRequests : UndoVoteFind(i, req)
    \/ \E i \in DOMAIN voteReqs : UndoVoteDelete(i)
    \/ \E i \in DOMAIN voteReqs : UndoVoteReturn(i)

SpecRankVote == InitRankVote /\ [][NextRankVote]_vars

----------------------------------------------------------------------------
(* Imports, a vote and an undo for room "1" while listings and rankings of *)
(* rooms "1" and "12" are cached                                           *)

\* the caches after a listing and a ranking of each room have been served
WarmPhotosCacheRooms ==
    TTLCache_set(WarmPhotosCache, PhotosKey(R2, <<"0">>, <<"5">>), "v2", None, 0)
WarmRankingsCacheRooms ==
    TTLCache_set(WarmRankingsCache, RankingsKey(R2), "v2", None, 0)

RoomsItemLists == {<<TRUE>>, [k \in 1..(DRIVE_BATCH_SIZE + 1) |-> TRUE]}
RoomsImportRequests ==
    [room_id : {R1}, source_type : {"local", "drive"}, pre : {"ok"},
     items : RoomsItemLists]
RoomsUploadRequests ==
    [room_id : {R1}, source_type : {"upload"}, pre : {"ok"}, items : {<<TRUE>>}]

InitRooms ==
    /\ now = 0
    /\ photos_cache = WarmPhotosCacheRooms
    /\ rankings_cache = WarmRankingsCacheRooms
    /\ InitCacheUnderTest
    /\ photos = StoredPhotos(<< <<R1, "upload", TRUE>> >>)
    /\ votes = <<>>
    /\ import_jobs = <<>>
    /\ rankReqs = <<>>
    /\ listReqs = <<>>
    /\ voteReqs = [i \in {1, 2} |-> IdleVote]
    /\ importReqs = [i \in {1} |-> IdleImport]
    /\ bgTasks = <<>>
    /\ compressQueue = <<>>

NextRooms ==
    \/ Tick
    \/ \E i \in DOMAIN importReqs, req \in RoomsImportRequests : ImportStart(i, req)
    \/ \E i \in DOMAIN importReqs : ImportPrepare(i)
    \/ \E i \in DOMAIN importReqs : ImportItem(i)
    \/ \E i \in DOMAIN importReqs : ImportAfterLoop(i)
    \/ \E i \in DOMAIN importReqs : ImportReturn(i)
    \/ \E i \in DOMAIN importReqs, req \in RoomsUploadRequests : UploadStart(i, req)
    \/ \E i \in DOMAIN importReqs : UploadPrepare(i)
    \/ \E i \in DOMAIN importReqs : UploadItem(i)
    \/ \E i \in DOMAIN importReqs : UploadAfterLoop(i)
    \/ \E i \in DOMAIN importReqs : UploadReturn(i)
    \/ \E k \in DOMAIN bgTasks : TaskItem(k)
    \/ \E k \in DOMAIN bgTasks : TaskBatchUpdate(k)
    \/ \E k \in DOMAIN bgTasks : TaskBatchInvalidate(k)
    \/ \E k \in DOMAIN bgTasks : TaskFinal(k)
    \/ \E q \in DOMAIN compressQueue : CompressPhotoBackground(q)
    \/ \E i \in DOMAIN voteReqs, req \in RankVoteRequests : CreateVoteFind(i, req)
    \/ \E i \in DOMAIN voteReqs : CreateVoteWrite(i)
    \/ \E i \in DOMAIN voteReqs : CreateVoteReturn(i)
    \/ \E i \in DOMAIN voteReqs, req \in UndoRequests : UndoVoteFind(i, req)
    \/ \E i \in DOMAIN voteReqs : UndoVoteDelete(i)
    \/ \E i \in DOMAIN voteReqs : UndoVoteReturn(i)

SpecRooms == InitRooms /\ [][NextRooms]_vars

----------------------------------------------------------------------------
(* Concurrent vote submissions on an empty votes collection *)

VoteSlotIds == {1, 2, 3}
SubmittedScores == {-3, 3, 0}
VoteRequests ==
    [room_id : {R1}, photo_id : {Str(1)}, user_id : UserIds,
     score : SubmittedScores]

InitVote ==
    /\ now = 0
    /\ rankings_cache = WarmRankingsCache
    /\ photos_cache = TTLCache_init(PhotosTtl)
    /\ InitCacheUnderTest
    /\ photos = <<>>
    /\ votes = <<>>
    /\ import_jobs = <<>>
    /\ rankReqs = <<>>
    /\ listReqs = <<>>
    /\ voteReqs = [i \in VoteSlotIds |-> IdleVote]
    /\ importReqs = <<>>
    /\ bgTasks = <<>>
    /\ compressQueue = <<>>

NextVote ==
    \/ Tick
    \/ \E i \in DOMAIN voteReqs, req \in VoteRequests : CreateVoteFind(i, req)
    \/ \E i \in DOMAIN voteReqs : CreateVoteWrite(i)
    \/ \E i \in DOMAIN voteReqs : CreateVoteReturn(i)

SpecVote == InitVote /\ [][NextVote]_vars

----------------------------------------------------------------------------
(* C10: for any sequence of set, get, invalidate and invalidate_prefix     *)
(* calls and clock advances, get(key) returns the stored value exactly     *)
(* while now < expiry of the latest set of key that no invalidation        *)
(* removed; for a key whose TTL has elapsed, or that was never set or was  *)
(* invalidated, it returns None.                                           *)
C10_Expected(key) ==
    IF latest[key] # None /\ now < latest[key].val.at + latest[key].val.ttl
    THEN Some(latest[key].val.value)
    ELSE None

C10_GetFollowsLatestSet ==
    lastCall.op = "get" => lastCall.ret = C10_Expected(lastCall.key)

\* a get at the very instant of expiry, with no invalidation, returns None
C10_Witness ==
    /\ lastCall.op = "get"
    /\ latest[lastCall.key] # None
    /\ now = latest[lastCall.key].val.at + latest[lastCall.key].val.ttl
    /\ now > 0
    /\ lastCall.ret = None

----------------------------------------------------------------------------
(* One import into a room that is empty or already holds an uploaded photo *)

\* items enumerated by one import
MaxItems == 5

\* per item: TRUE when its download and compression succeed (drive), when the
\* file is a decodable image (local)
ItemLists == UNION {[1..n -> BOOLEAN] : n \in 0..MaxItems}
Preconditions == {"ok", "bad_id", "no_room", "bad_request", "unauthorized"}
ImportRequests ==
    {r \in [room_id : {R1}, source_type : {"local", "drive"},
            pre : Preconditions, items : ItemLists] :
        /\ r.pre # "ok" => r.items = <<>>
        /\ r.pre = "unauthorized" => r.source_type = "drive"}

UploadRequests ==
    {r \in [room_id : {R1}, source_type : {"upload"},
            pre : {"ok", "bad_id", "no_room"},
            items : ItemLists] :
        r.pre # "ok" => r.items = <<>>}

InitImport ==
    /\ now = 0
    /\ \E warm \in BOOLEAN :
          /\ photos_cache = IF warm THEN WarmPhotosCache
                            ELSE TTLCache_init(PhotosTtl)
          /\ rankings_cache = IF warm THEN WarmRankingsCache
                              ELSE TTLCache_init(RankingsTtl)
    /\ InitCacheUnderTest
    /\ \E kinds \in {<<>>, << <<R1, "upload", TRUE>> >>} :
          photos = StoredPhotos(kinds)
    /\ votes = <<>>
    /\ import_jobs = <<>>
    /\ rankReqs = <<>>
    /\ listReqs = <<>>
    /\ voteReqs = <<>>
    /\ importReqs = [i \in {1} |-> IdleImport]
    /\ bgTasks = <<>>
    /\ compressQueue = <<>>

NextImport ==
    \/ \E i \in DOMAIN importReqs, req \in ImportRequests : ImportStart(i, req)
    \/ \E i \in DOMAIN importReqs : ImportPrepare(i)
    \/ \E i \in DOMAIN importReqs : ImportItem(i)
    \/ \E i \in DOMAIN importReqs : ImportAfterLoop(i)
    \/ \E i \in DOMAIN importReqs : ImportReturn(i)
    \/ \E i \in DOMAIN importReqs : ImportExcept(i)
    \/ \E i \in DOMAIN importReqs, req \in UploadRequests : UploadStart(i, req)
    \/ \E i \in DOMAIN importReqs : UploadPrepare(i)
    \/ \E i \in DOMAIN importReqs : UploadItem(i)
    \/ \E i \in DOMAIN importReqs : UploadAfterLoop(i)
    \/ \E i \in DOMAIN importReqs : UploadReturn(i)
    \/ \E k \in DOMAIN bgTasks : TaskItem(k)
    \/ \E k \in DOMAIN bgTasks : TaskBatchUpdate(k)
    \/ \E k \in DOMAIN bgTasks : TaskBatchInvalidate(k)
    \/ \E k \in DOMAIN bgTasks : TaskFinal(k)
    \/ \E q \in DOMAIN compressQueue : CompressPhotoBackground(q)

SpecImport == InitImport /\ [][NextImport]_vars

\* the same import with top-level failures of the task; the event loop runs
\* a task created with asyncio.create_task whenever it can take a step
NextImportFault ==
    \/ NextImport
    \/ \E k \in DOMAIN bgTasks : TaskCrash(k)

SpecImportFault ==
    /\ InitImport
    /\ [][NextImportFault]_vars
    /\ \A k \in {1} : WF_vars(TaskStep(k))

\* the same import with failures of the store during the synchronous part
NextSyncFault ==
    \/ NextImport
    \/ \E i \in DOMAIN importReqs : ImportFail(i)
    \/ \E i \in DOMAIN importReqs : UploadFail(i)
    \/ \E i \in DOMAIN importReqs : UploadExcept(i)

SpecSyncFault == InitImport /\ [][NextSyncFault]_vars

----------------------------------------------------------------------------
(* Two imports into the same room whose executions overlap *)

\* drive imports of one item, of one item more than a batch, and of one item
\* more than a batch whose last item fails; uploads of one photo
RaceItemLists ==
    {<<TRUE>>, [k \in 1..(DRIVE_BATCH_SIZE + 1) |-> TRUE],
     [k \in 1..(DRIVE_BATCH_SIZE + 1) |-> k <= DRIVE_BATCH_SIZE]}
RaceImportRequests ==
    [room_id : {R1}, source_type : {"drive"}, pre : {"ok"}, items : RaceItemLists]
RaceUploadRequests ==
    [room_id : {R1}, source_type : {"upload"}, pre : {"ok"}, items : {<<TRUE>>}]

InitImportRace ==
    /\ InitGlobals
    /\ InitCacheUnderTest
    /\ photos = <<>>
    /\ votes = <<>>
    /\ import_jobs = <<>>
    /\ rankReqs = <<>>
    /\ listReqs = <<>>
    /\ voteReqs = <<>>
    /\ importReqs = [i \in {1, 2} |-> IdleImport]
    /\ bgTasks = <<>>
    /\ compressQueue = <<>>

NextImportRace ==
    \/ \E i \in DOMAIN importReqs, req \in RaceImportRequests : ImportStart(i, req)
    \/ \E i \in DOMAIN importReqs : ImportPrepare(i)
    \/ \E i \in DOMAIN importReqs : ImportItem(i)
    \/ \E i \in DOMAIN importReqs : ImportAfterLoop(i)
    \/ \E i \in DOMAIN importReqs : ImportReturn(i)
    \/ \E i \in DOMAIN importReqs, req \in RaceUploadRequests : UploadStart(i, req)
    \/ \E i \in DOMAIN importReqs : UploadPrepare(i)
    \/ \E i \in DOMAIN importReqs : UploadItem(i)
    \/ \E i \in DOMAIN importReqs : UploadAfterLoop(i)
    \/ \E i \in DOMAIN importReqs : UploadReturn(i)
    \/ \E k \in DOMAIN bgTasks : TaskItem(k)
    \/ \E k \in DOMAIN bgTasks : TaskBatchUpdate(k)
    \/ \E k \in DOMAIN bgTasks : TaskBatchInvalidate(k)
    \/ \E k \in DOMAIN bgTasks : TaskFinal(k)

SpecImportRace == InitImportRace /\ [][NextImportRace]_vars

----------------------------------------------------------------------------
(* A drive import of one item more than a batch into the empty room "1",   *)
(* with listings and rankings of the room requested while it runs          *)

ReadImportRequests ==
    [room_id : {R1}, source_type : {"drive"}, pre : {"ok"},
     items : {[k \in 1..(DRIVE_BATCH_SIZE + 1) |-> TRUE]}]

InitImportRead ==
    /\ InitGlobals
    /\ InitCacheUnderTest
    /\ photos = <<>>
    /\ votes = <<>>
    /\ import_jobs = <<>>
    /\ rankReqs = [i \in {1} |-> IdleRank]
    /\ listReqs = [i \in {1, 2} |-> IdleList]
    /\ voteReqs = <<>>
    /\ importReqs = [i \in {1} |-> IdleImport]
    /\ bgTasks = <<>>
    /\ compressQueue = <<>>

NextImportRead ==
    \/ \E i \in DOMAIN importReqs, req \in ReadImportRequests : ImportStart(i, req)
    \/ \E i \in DOMAIN importReqs : ImportPrepare(i)
    \/ \E i \in DOMAIN importReqs : ImportItem(i)
    \/ \E i \in DOMAIN importReqs : ImportAfterLoop(i)
    \/ \E k \in DOMAIN bgTasks : TaskItem(k)
    \/ \E k \in DOMAIN bgTasks : TaskBatchUpdate(k)
    \/ \E k \in DOMAIN bgTasks : TaskBatchInvalidate(k)
    \/ \E k \in DOMAIN bgTasks : TaskFinal(k)
    \/ \E i \in DOMAIN listReqs : ListStart(i, R1, 0, MaxItems)
    \/ \E i \in DOMAIN listReqs : ListCount(i)
    \/ \E i \in DOMAIN listReqs : ListFind(i)
    \/ \E i \in DOMAIN listReqs : ListReturn(i)
    \/ \E i \in DOMAIN rankReqs : RankStart(i, R1)
    \/ \E i \in DOMAIN rankReqs : RankReadPhotos(i)
    \/ \E i \in DOMAIN rankReqs : RankReadVotes(i)
    \/ \E i \in DOMAIN rankReqs : RankFinish(i)

SpecImportRead == InitImportRead /\ [][NextImportRead]_vars

----------------------------------------------------------------------------
(* Listings of room "1" while the compression of its local photos runs *)

\* the photos in the store: ready uploads of both rooms and local photos of
\* the room listed, from image files (TRUE) or from files that are no images
ListPhotoKinds == {<<R1, "upload", TRUE>>, <<R1, "local", TRUE>>,
                   <<R1, "local", FALSE>>, <<R2, "upload", TRUE>>}
ListPhotoKindLists == UNION {[1..n -> ListPhotoKinds] : n \in 0..(MaxPhotos + 1)}

\* skip: int = Query(0, ge=0), limit: int = Query(50, ge=1, le=100)
ListSkips == {0, 1}
ListLimits == {1, 2}

InitList ==
    /\ InitGlobals
    /\ InitCacheUnderTest
    /\ \E kinds \in ListPhotoKindLists :
          /\ photos = StoredPhotos(kinds)
          /\ compressQueue = QueuesOf(StoredPhotos(kinds),
                                     [k \in 1..Len(kinds) |-> kinds[k][3]], RoomIds)
    /\ votes = <<>>
    /\ import_jobs = <<>>
    /\ rankReqs = <<>>
    /\ listReqs = [i \in {1, 2} |-> IdleList]
    /\ voteReqs = <<>>
    /\ importReqs = <<>>
    /\ bgTasks = <<>>

NextList ==
    \/ \E i \in DOMAIN listReqs, skip \in ListSkips, limit \in ListLimits :
          ListStart(i, R1, skip, limit)
    \/ \E i \in DOMAIN listReqs : ListCount(i)
    \/ \E i \in DOMAIN listReqs : ListFind(i)
    \/ \E i \in DOMAIN listReqs : ListReturn(i)
    \/ \E q \in DOMAIN compressQueue : CompressPhotoBackground(q)

SpecList == InitList /\ [][NextList]_vars

----------------------------------------------------------------------------
AllOk(items) == \A k \in 1..Len(items) : items[k]
CountOk(items) == Cardinality({k \in 1..Len(items) : items[k]})

\* the job record getJobStatus returns (server.py:1457)
JobOf(job_id) == import_jobs[job_id]
\* the items enumerated by the import that created the job
ItemsOfJob(job_id) ==
    LET i == CHOOSE i \in DOMAIN importReqs : importReqs[i].job_id = job_id
    IN importReqs[i].req.val.items
PhotosByJob(job_id) == SelectSeq(photos, LAMBDA p : p.by_job = job_id)
\* failed_photos as a poller reads it: absent until a batch has written it
FailedOf(job) == IF job.failed_photos = None THEN 0 ELSE job.failed_photos.val

SplitDriveCase(i) ==
    /\ importReqs[i].pc = "done"
    /\ importReqs[i].req.val.pre = "ok"
    /\ importReqs[i].req.val.source_type = "drive"
    /\ Len(importReqs[i].req.val.items) > DRIVE_BATCH_SIZE
    /\ AllOk(SubSeq(importReqs[i].req.val.items, 1, DRIVE_BATCH_SIZE))

(* C1: a drive import whose enumeration returns N > batchSize items, no    *)
(* item of the initial slice failing, answers status processing,           *)
(* importedCount = batchSize, pendingCount = N - batchSize, totalFound = N *)
(* (so importedCount + pendingCount = totalFound).                         *)
C1_SplitResponse ==
    \A i \in DOMAIN importReqs :
        SplitDriveCase(i) =>
            LET n == Len(importReqs[i].req.val.items)
                resp == importReqs[i].response.val
            IN /\ resp.status_code = 200
               /\ resp.status = "processing"
               /\ resp.imported_count = DRIVE_BATCH_SIZE
               /\ resp.pending_count = Some(n - DRIVE_BATCH_SIZE)
               /\ resp.total_found = Some(n)
               /\ resp.imported_count + resp.pending_count.val
                    = resp.total_found.val

\* the largest import of the model: two full batches and a partial one follow
C1_Witness ==
    \E i \in DOMAIN importReqs :
        /\ SplitDriveCase(i)
        /\ Len(importReqs[i].req.val.items) = MaxItems

(* C2: after a drive import of N > batchSize items in which no item fails, *)
(* once the Continuation Task has finished the job record reports status   *)
(* completed, processedPhotos = N and failedPhotos = 0.                    *)
C2_JobCompletedAfterContinuation ==
    \A k \in DOMAIN bgTasks :
        /\ bgTasks[k].pc = "done"
        /\ AllOk(ItemsOfJob(bgTasks[k].job_id))
        => /\ JobOf(bgTasks[k].job_id).status = "completed"
           /\ JobOf(bgTasks[k].job_id).processed_photos
                = Len(ItemsOfJob(bgTasks[k].job_id))
           /\ JobOf(bgTasks[k].job_id).failed_photos = Some(0)

C2_Witness ==
    \E k \in DOMAIN bgTasks :
        /\ bgTasks[k].pc = "done"
        /\ AllOk(ItemsOfJob(bgTasks[k].job_id))
        /\ Len(ItemsOfJob(bgTasks[k].job_id)) = MaxItems
        /\ JobOf(bgTasks[k].job_id).processed_photos = MaxItems

(* C3: a job record is created in status processing with zero counters;    *)
(* its status only changes from processing to completed or failed, and     *)
(* once it is completed or failed no later write changes it.               *)
C3_StatusTransitions ==
    [][/\ Len(import_jobs') >= Len(import_jobs)
       /\ \A j \in 1..Len(import_jobs) :
             /\ import_jobs[j].status \in {"completed", "failed"}
                  => import_jobs'[j].status = import_jobs[j].status
             /\ import_jobs'[j].status # import_jobs[j].status
                  => /\ import_jobs[j].status \in {"pending", "processing"}
                     /\ import_jobs[j].status = "pending"
                          => import_jobs'[j].status = "processing"
                     /\ import_jobs[j].status = "processing"
                          => import_jobs'[j].status \in {"completed", "failed"}
       /\ \A j \in (Len(import_jobs) + 1)..Len(import_jobs') :
             /\ import_jobs'[j].status = "processing"
             /\ import_jobs'[j].total_photos = 0
             /\ import_jobs'[j].processed_photos = 0
             /\ FailedOf(import_jobs'[j]) = 0]_vars

\* a job that the Continuation Task ended as failed, after the handler had
\* answered processing
C3_Witness ==
    \E k \in DOMAIN bgTasks :
        /\ bgTasks[k].pc = "done"
        /\ JobOf(bgTasks[k].job_id).status = "failed"

(* C4 as claimed: while a job is in status processing, no write lowers     *)
(* totalPhotos, processedPhotos or failedPhotos, also when items fail.     *)
C4_NoCounterLowered ==
    [][\A j \in 1..Len(import_jobs) :
          import_jobs[j].status = "processing"
          => /\ import_jobs'[j].total_photos >= import_jobs[j].total_photos
             /\ import_jobs'[j].processed_photos >= import_jobs[j].processed_photos
             /\ FailedOf(import_jobs'[j]) >= FailedOf(import_jobs[j])]_vars

(* C4 as amended: while a job is in status processing, no write lowers     *)
(* processedPhotos or failedPhotos; totalPhotos is not lowered as long as  *)
(* no item of the job fails (with a failed item, a per-batch or the final  *)
(* update can lower it).                                                   *)
C4_ProcessedFailedNeverLowered ==
    [][\A j \in 1..Len(import_jobs) :
          import_jobs[j].status = "processing"
          => /\ import_jobs'[j].processed_photos >= import_jobs[j].processed_photos
             /\ FailedOf(import_jobs'[j]) >= FailedOf(import_jobs[j])
             /\ AllOk(ItemsOfJob(j))
                  => import_jobs'[j].total_photos >= import_jobs[j].total_photos]_vars

\* a job still in processing whose progress was written after a failed item
C4_Witness ==
    \E j \in 1..Len(import_jobs) :
        /\ import_jobs[j].status = "processing"
        /\ FailedOf(import_jobs[j]) > 0
        /\ import_jobs[j].processed_photos > DRIVE_BATCH_SIZE

(* C5: a local import over a folder with k valid images and one corrupt    *)
(* image file completes with importedCount = k; the corrupt file produces  *)
(* no photo record and does not fail the job.                              *)
C5_CorruptLocalFileSkipped ==
    \A i \in DOMAIN importReqs :
        /\ importReqs[i].pc = "done"
        /\ importReqs[i].req.val.pre = "ok"
        /\ importReqs[i].req.val.source_type = "local"
        /\ CountOk(importReqs[i].req.val.items)
             = Len(importReqs[i].req.val.items) - 1
        => /\ importReqs[i].response.val.status = "completed"
           /\ JobOf(importReqs[i].job_id).status = "completed"
           /\ importReqs[i].response.val.imported_count
                = CountOk(importReqs[i].req.val.items)
           /\ Len(PhotosByJob(importReqs[i].job_id))
                = CountOk(importReqs[i].req.val.items)

----------------------------------------------------------------------------
\* a photo with a ready payload, as the listing filters it (server.py:1488-1491)
Ready(photo) == photo.compressed_data # None

Aggregated(i) == rankReqs[i].pc = "done" /\ rankReqs[i].aggregated

NonIncreasing(res) ==
    \A k \in 1..(Len(res) - 1) :
        ~ScoreLess(res[k].weighted_score, res[k + 1].weighted_score)

RanksInOrder(res) == \A k \in 1..Len(res) : res[k].rank = k

(* C6: computeRankings(R) computed on a cache miss returns its entries in  *)
(* non-increasing weightedScore order, with rank fields exactly 1..N in    *)
(* list order, N being the number of ready photos of the room (voted or    *)
(* not) that the call read.                                                *)
C6_SortedRankedOverReadyPhotos ==
    \A i \in DOMAIN rankReqs :
        Aggregated(i) =>
            /\ NonIncreasing(rankReqs[i].result.val)
            /\ RanksInOrder(rankReqs[i].result.val)
            /\ Len(rankReqs[i].result.val)
                 = Len(SelectSeq(rankReqs[i].photos, Ready))

(* C7: in the result of computeRankings a photo with zero votes has        *)
(* weightedScore = 0 and voteCount = 0 and is included, while a photo with *)
(* no ready payload, whatever its source kind, never appears.              *)
C7_UnvotedIncludedUnreadyExcluded ==
    \A i \in DOMAIN rankReqs :
        Aggregated(i) =>
            LET res == rankReqs[i].result.val
                read == rankReqs[i].photos
            IN /\ \A k \in 1..Len(res) :
                     res[k].vote_count = 0 => res[k].weighted_score.num = 0
               /\ \A k \in 1..Len(read) :
                     /\ Ready(read[k])
                     /\ VotesOfPhoto(rankReqs[i].all_votes, Str(read[k]._id)) = <<>>
                     => \E e \in 1..Len(res) :
                           /\ res[e].photo_id = Str(read[k]._id)
                           /\ res[e].weighted_score.num = 0
                           /\ res[e].vote_count = 0
               /\ \A k \in 1..Len(read) :
                     ~Ready(read[k])
                     => \A e \in 1..Len(res) : res[e].photo_id # Str(read[k]._id)

(* C8: after any sequence of vote submissions, also interleaved between    *)
(* the existence lookup and the write, at most one vote record exists per  *)
(* (room, photo, user) triple, and a vote for a triple that already has a  *)
(* record replaces its score and timestamp instead of adding a record or   *)
(* failing: no create_vote request with a valid score ends in an error.    *)
OneVotePerTriple ==
    \A a, b \in 1..Len(votes) : SameTriple(votes[a], votes[b]) => a = b

C8_UpsertNeverFails ==
    /\ OneVotePerTriple
    /\ \A i \in DOMAIN voteReqs :
          /\ voteReqs[i].pc = "done"
          /\ voteReqs[i].req.val.score \in ValidScores
          => voteReqs[i].status = 200

(* C9: two concurrent computeRankings(R) calls issued after a cache miss   *)
(* and within the ranking TTL both return the same result and together     *)
(* perform at most one aggregation.                                        *)
C9_ConcurrentCallsAggregateOnce ==
    \A i, j \in DOMAIN rankReqs :
        /\ i # j
        /\ rankReqs[i].pc = "done"
        /\ rankReqs[j].pc = "done"
        /\ rankReqs[i].room_id = rankReqs[j].room_id
        /\ j \in rankReqs[i].overlaps
        /\ rankReqs[i].started - rankReqs[j].started < RankingsTtl
        => /\ rankReqs[i].result = rankReqs[j].result
           /\ ~(rankReqs[i].aggregated /\ rankReqs[j].aggregated)

----------------------------------------------------------------------------
\* p is a literal prefix of the string k
IsLiteralPrefix(p, k) == \E n \in 0..Len(k) : k = p \o SubSeq(k, n + 1, Len(k))

\* the keys get_room_photos uses for the pages of a room (server.py:1482)
ListingPages == {<<"0">>, <<"5">>}
ListingKeys(room_id) ==
    {PhotosKey(room_id, skip, limit) : skip \in ListingPages, limit \in ListingPages}

\* every entry of c other than those under the keys gone is in d unchanged
SameEntriesExcept(c, d, gone) ==
    /\ DOMAIN d.store = (DOMAIN c.store) \ gone
    /\ DOMAIN d.expiry = (DOMAIN c.expiry) \ gone
    /\ \A k \in DOMAIN d.store :
          d.store[k] = c.store[k] /\ d.expiry[k] = c.expiry[k]

(* C11: invalidate_prefix(p) removes every entry whose key has p as a      *)
(* literal string prefix and leaves the value and expiry of every other    *)
(* entry unchanged; invalidate_prefix("photos:R:") removes all listing     *)
(* entries photos:R:skip:limit of room R and none of any other room.       *)
C11_InvalidatePrefixFrame ==
    [][lastCall'.op = "invalidate_prefix" => \A p \in CachePrefixes :
          CacheInvalidatePrefix(p) =>
             /\ SameEntriesExcept(cache, cache',
                    {k \in DOMAIN cache.store : IsLiteralPrefix(p, k)})
             /\ \A room \in RoomIds :
                   p = PhotosPrefix(room) =>
                      /\ \A k \in ListingKeys(room) : k \notin DOMAIN cache'.store
                      /\ \A other \in RoomIds \ {room} :
                            \A k \in ListingKeys(other) \cap DOMAIN cache.store :
                               k \in DOMAIN cache'.store]_vars

\* both pages of room "1" were removed and the page of room "12" is kept
C11_Witness ==
    /\ lastCall.op = "invalidate_prefix"
    /\ lastCall.removed = ListingKeys(R1) \cap CacheKeys
    /\ Cardinality(lastCall.removed) = 2
    /\ PhotosKey(R2, <<"0">>, <<"5">>) \in DOMAIN cache.store

(* C17: set(key, value, ttl) overwrites any existing entry for key and     *)
(* sets its expiry to now + ttl (the default TTL when ttl is omitted); a   *)
(* get(key) before that expiry, with no invalidation in between, returns   *)
(* the value of the most recent set.                                       *)
C17_SetOverwrites ==
    [][/\ lastCall'.op = "set" =>
          \A k \in CacheKeys, v \in CacheValues, ttl \in TtlArgs :
             CacheSet(k, v, ttl) =>
                /\ SameEntriesExcept(cache, [cache' EXCEPT !.store = Pop(@, k),
                                                           !.expiry = Pop(@, k)], {k})
                /\ k \in DOMAIN cache'.store /\ cache'.store[k] = v
                /\ k \in DOMAIN cache'.expiry
                /\ cache'.expiry[k]
                     = now + (IF ttl = None THEN DefaultTtlArg ELSE ttl.val)
       /\ lastCall'.op = "get" => \A k \in CacheKeys :
             /\ CacheGet(k)
             /\ latest[k] # None
             /\ now < latest[k].val.at + latest[k].val.ttl
             => lastCall'.ret = Some(latest[k].val.value)]_vars

\* an entry overwritten, after the clock advanced, by a set with ttl = 0
C17_Witness ==
    /\ lastCall.op = "set"
    /\ lastCall.overwrote
    /\ now > 0
    /\ \E k \in CacheKeys :
          /\ latest[k] = Some([value |-> "v2", at |-> now, ttl |-> 0])
          /\ cache.expiry[k] = now

(* C18: a get(key) that returns absent leaves neither a value nor an       *)
(* expiry for key in the cache (an expired entry is evicted) and leaves    *)
(* every other entry unchanged.                                            *)
C18_GetEvictsExpired ==
    [][lastCall'.op = "get" => \A k \in CacheKeys :
          CacheGet(k) /\ lastCall'.ret = None =>
             SameEntriesExcept(cache, cache', {k})]_vars

\* an expired entry was evicted by the get while another entry stayed
C18_Witness ==
    /\ lastCall.op = "get"
    /\ lastCall.ret = None
    /\ lastCall.evicted
    /\ DOMAIN cache.store # {}

(* C19: invalidate(key) removes exactly the entry for key, leaves every    *)
(* other entry's value and expiry unchanged and is a no-op when key is     *)
(* absent, so that invalidating twice equals invalidating once.            *)
C19_InvalidateExact ==
    [][lastCall'.op = "invalidate" => \A k \in CacheKeys :
          CacheInvalidate(k) =>
             /\ SameEntriesExcept(cache, cache', {k})
             /\ k \notin DOMAIN cache.store => cache' = cache
             /\ TTLCache_invalidate(cache', k) = cache']_vars

\* an entry that was present was removed while another entry stayed
C19_Witness ==
    /\ lastCall.op = "invalidate"
    /\ lastCall.present
    /\ DOMAIN cache.store # {}

----------------------------------------------------------------------------
\* the request of slot i failed a precondition other than the room lookup:
\* a missing or invalid folder, a missing or refused credential, or an
\* enumeration with no eligible item
FailedPrecondition(req) ==
    /\ req.source_type \in {"local", "drive"}
    /\ \/ req.pre \in {"bad_request", "unauthorized"}
       \/ req.pre = "ok" /\ req.items = <<>>

(* C12: when startImport fails a precondition (room missing, folder or     *)
(* drive folder id missing or invalid, credential missing or unauthorized, *)
(* no eligible item), no import-job record and no photo record has been    *)
(* created or modified when the error is returned.                         *)
C12_NoMutationOnPreconditionFailure ==
    \A i \in DOMAIN importReqs :
        /\ importReqs[i].pc = "done"
        /\ \/ FailedPrecondition(importReqs[i].req.val)
           \/ importReqs[i].req.val.pre \in {"no_room", "bad_id"}
        => /\ importReqs[i].response.val.status_code # 200
           /\ import_jobs = <<>>
           /\ \A k \in 1..Len(photos) : photos[k].by_job = 0

(* C13: a precondition failure raised inside startImport reaches the       *)
(* caller with its own error class: a bad request as 400, a missing or     *)
(* refused credential as 401; none is replaced by a 500.                   *)
C13_PreconditionErrorClassKept ==
    \A i \in DOMAIN importReqs :
        /\ importReqs[i].pc = "done"
        /\ FailedPrecondition(importReqs[i].req.val)
        => importReqs[i].response.val.status_code
             = IF importReqs[i].req.val.pre = "unauthorized" THEN 401 ELSE 400

(* C14: startImport and the upload entry points, called with a room id     *)
(* that does not exist, fail with NotFound (404), create no import-job     *)
(* record and no photo record and remove no cache entry.                   *)
C14_MissingRoomNotFound ==
    [][\A i \in DOMAIN importReqs :
          /\ importReqs[i].pc # "done"
          /\ importReqs'[i].pc = "done"
          /\ importReqs'[i].req.val.pre \in {"no_room", "bad_id"}
          => /\ importReqs[i].pc = "idle"
             /\ importReqs'[i].response.val.status_code = 404
             /\ UNCHANGED <<photos, votes, import_jobs, photos_cache,
                            rankings_cache>>]_vars

\* no compress_photo_background task of a photo of the job is still to run
NoTaskPending(job_id, tasks, queue, docs) ==
    /\ \A q \in DOMAIN queue :
          \A k \in 1..Len(queue[q]) : docs[queue[q][k].photo_id].by_job # job_id
    /\ \A k \in 1..Len(tasks) : docs[tasks[k].photo_id].by_job # job_id

(* C15: for a local or upload source, at the moment the response with      *)
(* status completed is returned, every photo record created by the job     *)
(* carries its ready payload and no task of that job is still pending.     *)
C15_SyncSourcesDoneAtReturn ==
    [][\A i \in DOMAIN importReqs :
          /\ importReqs[i].pc # "done"
          /\ importReqs'[i].pc = "done"
          /\ importReqs'[i].req.val.source_type \in {"local", "upload"}
          /\ importReqs'[i].response.val.status = "completed"
          => /\ \A k \in 1..Len(photos') :
                   photos'[k].by_job = importReqs'[i].job_id
                   => photos'[k].compressed_data # None
             /\ NoTaskPending(importReqs'[i].job_id, importReqs'[i].tasks,
                              compressQueue', photos')]_vars

(* C20: every stored vote record has a score in {-3, -2, -1, 1, 2, 3};     *)
(* create_vote with any other score is rejected as invalid input (400)     *)
(* and leaves the vote records and the ranking cache unchanged.            *)
C20_ScoresInFixedSet ==
    [][/\ \A k \in 1..Len(votes') : votes'[k].score \in {-3, -2, -1, 1, 2, 3}
       /\ \A i \in DOMAIN voteReqs :
             /\ voteReqs[i].pc = "idle"
             /\ voteReqs'[i].pc # "idle"
             /\ voteReqs'[i].req.val.score \notin {-3, -2, -1, 1, 2, 3}
             => /\ voteReqs'[i].pc = "done"
                /\ voteReqs'[i].status = 400
                /\ UNCHANGED <<votes, rankings_cache>>]_vars

\* a vote with score 0 rejected while a vote record exists and the ranking
\* of the room is still cached
C20_Witness ==
    \E i \in DOMAIN voteReqs :
        /\ voteReqs[i].pc = "done"
        /\ voteReqs[i].req.val.score = 0
        /\ voteReqs[i].status = 400
        /\ votes # <<>>
        /\ rankings_cache = WarmRankingsCache

----------------------------------------------------------------------------
\* the ready photos of a room among docs, and the number of them that come
\* before doc in index order
ReadyOfRoom(docs, room_id) ==
    {k \in 1..Len(docs) : docs[k].room_id = room_id /\ Ready(docs[k])}
ReadyBefore(docs, room_id, doc) ==
    Cardinality({k \in ReadyOfRoom(docs, room_id) : docs[k].index < doc.index})

(* C16: listReadyPhotos(room, skip, limit) never returns a photo that has  *)
(* no ready payload; on a cache miss it returns the room's ready photos in *)
(* ascending index order restricted to the [skip, skip+limit) window, and  *)
(* total equals the number of ready photos of the room at the time of the  *)
(* read.                                                                   *)
C16_ListingOnlyReadyPhotos ==
    [][\A i \in DOMAIN listReqs :
          LET r == listReqs[i]
              page == listReqs'[i].photos
          IN /\ listReqs'[i].pc = "done" =>
                   \A k \in 1..Len(listReqs'[i].result.val.photos) :
                      listReqs'[i].result.val.photos[k].compressed_data # None
             /\ r.pc = "count" /\ listReqs'[i].pc = "find" =>
                   listReqs'[i].total
                     = Cardinality(ReadyOfRoom(photos, r.room_id))
             /\ r.pc = "find" /\ listReqs'[i].pc = "return" =>
                   /\ \A k \in 1..Len(page) :
                         \E d \in ReadyOfRoom(photos, r.room_id) :
                            page[k] = photos[d]
                   /\ \A k \in 1..(Len(page) - 1) :
                         page[k].index < page[k + 1].index
                   /\ \A d \in ReadyOfRoom(photos, r.room_id) :
                         (\E k \in 1..Len(page) : page[k] = photos[d])
                         <=> /\ r.skip <= ReadyBefore(photos, r.room_id, photos[d])
                             /\ ReadyBefore(photos, r.room_id, photos[d])
                                  < r.skip + r.limit
             /\ r.pc = "return" /\ listReqs'[i].pc = "done" =>
                   listReqs'[i].result
                     = Some([photos |-> r.photos, total |-> r.total,
                             skip |-> r.skip, limit |-> r.limit])]_vars

\* a listing computed on a miss with skip = 1: the room holds three photos,
\* one of them not ready, and the page is the second ready photo
C16_Witness ==
    \E i \in DOMAIN listReqs :
        /\ listReqs[i].pc = "done"
        /\ ~listReqs[i].cached
        /\ listReqs[i].skip = 1
        /\ listReqs[i].total = 2
        /\ Len(listReqs[i].result.val.photos) = 1
        /\ listReqs[i].result.val.photos[1].index = 2
        /\ \E k \in 1..Len(photos) :
              photos[k].room_id = listReqs[i].room_id /\ ~Ready(photos[k])

----------------------------------------------------------------------------
\* the room's maximum index + 1 (0 for an empty room) over the photos that
\* were in the store before any job of the behaviour started
StartOfJobs(room_id) ==
    LET prior == {k \in 1..Len(photos) :
                    photos[k].by_job = 0 /\ photos[k].room_id = room_id}
    IN IF prior = {} THEN 0
       ELSE 1 + CHOOSE m \in {photos[k].index : k \in prior} :
                   \A k \in prior : photos[k].index <= m

C22_IndexReservedPerItem ==
    [][\A k \in DOMAIN bgTasks :
          LET t == bgTasks[k]
          IN t.pc = "items" /\ bgTasks'[k].pos = t.pos + 1 =>
                /\ bgTasks'[k].current_index = t.start_index + t.pos
                /\ IF t.remaining_files[t.pos]
                   THEN /\ Len(photos') = Len(photos) + 1
                        /\ photos'[Len(photos')].index
                             = t.start_index + (t.pos - 1)
                        /\ photos'[Len(photos')].by_job = t.job_id
                        /\ bgTasks'[k].failed = t.failed
                   ELSE /\ photos' = photos
                        /\ bgTasks'[k].failed = t.failed + 1]_vars

\* the task has just imported an item that follows a failed one
C22_Witness ==
    \E k \in DOMAIN bgTasks :
        LET t == bgTasks[k]
        IN /\ t.pos >= 3
           /\ ~t.remaining_files[t.pos - 2]
           /\ t.remaining_files[t.pos - 1]
           /\ photos[Len(photos)].by_job = t.job_id
           /\ photos[Len(photos)].index = t.start_index + t.pos - 2

(* C25: after the last batch the Continuation Task sets the job status to  *)
(* completed if at least one item of the job succeeded and to failed       *)
(* otherwise; a job whose initial slice imported photos but whose          *)
(* remainder items all failed ends as completed.                           *)
C25_CompletedIfAnyItemSucceeded ==
    \A k \in DOMAIN bgTasks :
        bgTasks[k].pc = "done" =>
            JobOf(bgTasks[k].job_id).status
              = IF CountOk(ItemsOfJob(bgTasks[k].job_id)) > 0
                THEN "completed" ELSE "failed"

\* the remainder items imported and failed up to position n of the task
ImportedUpTo(t, n) == Cardinality({p \in 1..n : t.remaining_files[p]})
FailedUpTo(t, n) == Cardinality({p \in 1..n : ~t.remaining_files[p]})

(* C29: after each batch of the Continuation Task the job record holds     *)
(* processedPhotos = alreadyProcessed + remainder items imported so far,   *)
(* failedPhotos = remainder items failed so far and totalPhotos =          *)
(* alreadyProcessed + remainderLength - failedSoFar, written in one        *)
(* update, where imported + failed so far is the number of remainder items *)
(* handled up to the end of that batch.                                    *)
C29_BatchUpdateCounters ==
    [][\A k \in DOMAIN bgTasks :
          LET t == bgTasks[k]
              n == BatchEnd(t)
              job == import_jobs'[t.job_id]
          IN t.pc = "items" /\ bgTasks'[k].pc = "invalidate" =>
                /\ t.pos = n + 1
                /\ job.processed_photos = t.already_processed + ImportedUpTo(t, n)
                /\ job.failed_photos = Some(FailedUpTo(t, n))
                /\ job.total_photos
                     = t.already_processed + Len(t.remaining_files)
                         - FailedUpTo(t, n)
                /\ (job.processed_photos - t.already_processed)
                     + job.failed_photos.val = n
                /\ Len(SelectSeq(photos, LAMBDA d : d.by_job = t.job_id))
                     = job.processed_photos
                /\ job.status = import_jobs[t.job_id].status]_vars

\* the update after the second batch, with imported and failed items in the
\* remainder
C29_Witness ==
    \E k \in DOMAIN bgTasks :
        LET t == bgTasks[k]
        IN /\ t.pc = "invalidate"
           /\ t.batch_start > 0
           /\ t.failed > 0
           /\ t.processed > 0
           /\ t.already_processed > 0
           /\ JobOf(t.job_id).processed_photos = t.already_processed + t.processed
           /\ JobOf(t.job_id).failed_photos = Some(t.failed)

(* C30: when a drive job reaches completed or failed through the           *)
(* Continuation Task's final update, failedPhotos equals the number of     *)
(* enumerated items that were not imported, so processedPhotos +           *)
(* failedPhotos = the number of items enumerated, including failures of    *)
(* the synchronous initial slice.                                          *)
C30_EveryFailedItemCounted ==
    \A k \in DOMAIN bgTasks :
        bgTasks[k].pc = "done" =>
            LET job == JobOf(bgTasks[k].job_id)
                items == ItemsOfJob(bgTasks[k].job_id)
            IN /\ FailedOf(job) = Len(items) - CountOk(items)
               /\ job.processed_photos + FailedOf(job) = Len(items)

TaskScheduled == bgTasks # <<>>
TaskEnded ==
    /\ bgTasks # <<>>
    /\ \A k \in DOMAIN bgTasks :
          /\ bgTasks[k].pc \in {"done", "crashed"}
          /\ JobOf(bgTasks[k].job_id).status \in {"completed", "failed"}

----------------------------------------------------------------------------
\* the largest index among the photos of a room in the store, plus one
MaxIndexPlusOne(room_id) ==
    LET rs == {k \in 1..Len(photos) : photos[k].room_id = room_id}
    IN IF rs = {} THEN 0
       ELSE 1 + CHOOSE m \in {photos[k].index : k \in rs} :
                   \A k \in rs : photos[k].index <= m

(* C23: two import jobs for the same room whose executions overlap can     *)
(* reach a state in which two photo records of that room carry the same    *)
(* index; no reservation step prevents it: each job takes as its first     *)
(* index the maximum index + 1 of the photos in the store at the instant   *)
(* of its read, whatever the other jobs in flight are about to insert.     *)
C23_IndexReadWithoutReservation ==
    [][\A i \in DOMAIN importReqs :
          /\ importReqs[i].pc \in {"prepare", "u_prepare"}
          /\ importReqs'[i].pc \in {"loop", "u_loop"}
          => /\ importReqs'[i].current_index
                  = MaxIndexPlusOne(importReqs[i].req.val.room_id)
             /\ photos' = photos]_vars

\* two photo records of the room, created by different jobs, with one index
C23_Witness ==
    \E a, b \in 1..Len(photos) :
        /\ a # b
        /\ photos[a].room_id = photos[b].room_id
        /\ photos[a].index = photos[b].index
        /\ photos[a].by_job # photos[b].by_job
        /\ \E k \in DOMAIN bgTasks : bgTasks[k].job_id = photos[a].by_job

\* the Continuation Tasks of a job
TasksOf(job_id) == {k \in DOMAIN bgTasks : bgTasks[k].job_id = job_id}

(* C28: a job record has one writer at a time: every write of the          *)
(* synchronous handler to a job record happens before the Continuation     *)
(* Task for that job is scheduled, and after scheduling only that task     *)
(* writes to the job record.                                               *)
C28_OneWriterPerJob ==
    [][\A j \in 1..Len(import_jobs) :
          /\ Cardinality(TasksOf(j)) <= 1
          /\ import_jobs'[j] # import_jobs[j] =>
                IF TasksOf(j) # {}
                THEN /\ importReqs' = importReqs
                     /\ \A k \in DOMAIN bgTasks :
                           bgTasks'[k] # bgTasks[k] <=> k \in TasksOf(j)
                ELSE /\ \A i \in DOMAIN importReqs :
                           importReqs'[i] # importReqs[i]
                           <=> importReqs[i].job_id = j
                     /\ \A k \in DOMAIN bgTasks : bgTasks'[k] = bgTasks[k]]_vars

\* two jobs of the room, each with its task, one of them still running
C28_Witness ==
    /\ Len(bgTasks) = 2
    /\ bgTasks[1].job_id # bgTasks[2].job_id
    /\ bgTasks[1].pc = "done"
    /\ bgTasks[2].pc = "invalidate"
    /\ JobOf(bgTasks[2].job_id).failed_photos = Some(1)

----------------------------------------------------------------------------
(* C24: after the Continuation Task has completed a batch and performed    *)
(* its cache invalidation, every listing or ranking request for the room   *)
(* that starts afterwards returns a result with all the photos of that     *)
(* batch, whatever reads were in flight during the batch.                  *)
C24_ReadsAfterInvalidationSeeBatch ==
    /\ \A i \in DOMAIN listReqs :
          listReqs[i].pc = "done" =>
             listReqs[i].published
                \subseteq {listReqs[i].result.val.photos[n]._id :
                              n \in 1..Len(listReqs[i].result.val.photos)}
    /\ \A i \in DOMAIN rankReqs :
          rankReqs[i].pc = "done" =>
             {Str(id) : id \in rankReqs[i].published}
                \subseteq {rankReqs[i].result.val[n].photo_id :
                              n \in 1..Len(rankReqs[i].result.val)}

----------------------------------------------------------------------------
\* the handler of slot i leaves its loop over the synchronous items
LeavesLoop(i) ==
    /\ importReqs[i].pc = "loop"
    /\ importReqs'[i].pc # "loop"

(* C31: a drive import schedules a Continuation Task if and only if the    *)
(* enumeration returned more than DRIVE_BATCH_SIZE items; with at most     *)
(* DRIVE_BATCH_SIZE items no task is scheduled and the job is set to       *)
(* completed inside the synchronous call with total_photos =               *)
(* processed_photos = imported_count, exactly as for a local source.       *)
C31_TaskIffMoreThanBatch ==
    [][\A i \in DOMAIN importReqs :
          LeavesLoop(i) =>
             LET r == importReqs[i]
                 N == Len(r.req.val.items)
                 scheduled == /\ Len(bgTasks') = Len(bgTasks) + 1
                              /\ bgTasks'[Len(bgTasks')].job_id = r.job_id
                 completed_now ==
                    /\ bgTasks' = bgTasks
                    /\ import_jobs'[r.job_id].status = "completed"
                    /\ import_jobs'[r.job_id].total_photos = r.imported_count
                    /\ import_jobs'[r.job_id].processed_photos = r.imported_count
                    /\ importReqs'[i].pc = "return"
             IN IF r.req.val.source_type = "drive"
                THEN /\ scheduled <=> N > DRIVE_BATCH_SIZE
                     /\ N <= DRIVE_BATCH_SIZE => completed_now
                ELSE completed_now]_vars

\* a drive import of at most a batch, one item of which failed, has returned
\* completed and no task exists
C31_Witness ==
    \E i \in DOMAIN importReqs :
        /\ importReqs[i].pc = "done"
        /\ importReqs[i].req.val.source_type = "drive"
        /\ importReqs[i].req.val.pre = "ok"
        /\ Len(importReqs[i].req.val.items) = DRIVE_BATCH_SIZE
        /\ ~AllOk(importReqs[i].req.val.items)
        /\ importReqs[i].response.val.status = "completed"
        /\ JobOf(importReqs[i].job_id).status = "completed"
        /\ JobOf(importReqs[i].job_id).total_photos = importReqs[i].imported_count
        /\ importReqs[i].imported_count = DRIVE_BATCH_SIZE - 1
        /\ bgTasks = <<>>

----------------------------------------------------------------------------
\* the slot's handler has answered with an error after creating its job
FailedAfterJob(i) ==
    /\ importReqs[i].pc = "done"
    /\ importReqs[i].job_id # 0
    /\ importReqs[i].response.val.status_code >= 400

----------------------------------------------------------------------------
\* an upload whose handler has returned its answer
UploadReturned(i) ==
    /\ importReqs[i].pc = "done"
    /\ importReqs[i].req.val.source_type = "upload"
    /\ importReqs[i].response.val.status_code = 200

(* C33: in an upload import a per-item decode or transform failure skips   *)
(* that item without aborting the job: the job ends completed with         *)
(* total_photos = processed_photos = imported_count = the number of items  *)
(* that transformed successfully, exactly one ready photo record exists    *)
(* per successful item, and their indices are consecutive with no gap for  *)
(* skipped items.                                                          *)
C33_UploadSkipsFailedItems ==
    /\ \A i \in DOMAIN importReqs :
          /\ importReqs[i].pc = "done"
          /\ importReqs[i].req.val.source_type = "upload"
          /\ importReqs[i].req.val.pre = "ok"
          => UploadReturned(i)
    /\ \A i \in DOMAIN importReqs :
          UploadReturned(i) =>
             LET r == importReqs[i]
                 job == JobOf(r.job_id)
                 ok == CountOk(r.req.val.items)
                 ps == PhotosByJob(r.job_id)
             IN /\ job.status = "completed"
                /\ r.response.val.status = "completed"
                /\ job.total_photos = ok
                /\ job.processed_photos = ok
                /\ r.imported_count = ok
                /\ r.response.val.imported_count = ok
                /\ Len(ps) = ok
                /\ \A n \in 1..Len(ps) :
                      /\ Ready(ps[n])
                      /\ ps[n].index = StartOfJobs(r.req.val.room_id) + n - 1

\* an upload into a room with a photo, whose second item failed between two
\* that were stored
C33_Witness ==
    \E i \in DOMAIN importReqs :
        /\ UploadReturned(i)
        /\ StartOfJobs(importReqs[i].req.val.room_id) = 1
        /\ Len(importReqs[i].req.val.items) >= 3
        /\ importReqs[i].req.val.items[1]
        /\ ~importReqs[i].req.val.items[2]
        /\ importReqs[i].req.val.items[3]
        /\ Len(PhotosByJob(importReqs[i].job_id)) >= 2

----------------------------------------------------------------------------
(* C34: for a drive import job, in every reachable state the job record    *)
(* never overstates progress and lags the photo records by at most one     *)
(* batch: processed_photos <= number of photo records inserted so far by   *)
(* that job <= processed_photos + DRIVE_BATCH_SIZE.                        *)
C34_ProgressLagsByAtMostOneBatch ==
    \A j \in 1..Len(import_jobs) :
        JobOf(j).source_type = "drive" =>
           /\ JobOf(j).processed_photos <= Len(PhotosByJob(j))
           /\ Len(PhotosByJob(j)) <= JobOf(j).processed_photos + DRIVE_BATCH_SIZE

\* the task has inserted a whole batch that the job record does not show yet
C34_Witness ==
    \E k \in DOMAIN bgTasks :
        /\ bgTasks[k].pc = "items"
        /\ bgTasks[k].batch_start = 0
        /\ bgTasks[k].pos > BatchEnd(bgTasks[k])
        /\ Len(PhotosByJob(bgTasks[k].job_id))
              = JobOf(bgTasks[k].job_id).processed_photos + DRIVE_BATCH_SIZE
        /\ JobOf(bgTasks[k].job_id).processed_photos > 0

----------------------------------------------------------------------------
\* the position of a ranked photo in the list the photo read returned
ReadPosition(read, photo_id) ==
    CHOOSE n \in 1..Len(read) : Str(read[n]._id) = photo_id

SameScore(a, b) ==
    a.weighted_score.num * b.weighted_score.den
       = b.weighted_score.num * a.weighted_score.den

(* C35: computeRankings breaks ties stably: two ranked photos with equal   *)
(* weightedScore appear in the result in the relative order in which the   *)
(* photo read returned them, so the photo read earlier gets the smaller    *)
(* rank.                                                                   *)
C35_TiesKeepReadOrder ==
    \A i \in DOMAIN rankReqs :
        Aggregated(i) =>
            LET res == rankReqs[i].result.val
                read == rankReqs[i].photos
            IN \A a, b \in 1..Len(res) :
                  /\ a # b
                  /\ SameScore(res[a], res[b])
                  /\ ReadPosition(read, res[a].photo_id)
                        < ReadPosition(read, res[b].photo_id)
                  => a < b /\ res[a].rank < res[b].rank

\* two photos with votes and the same score, ranked in the order of the read
C35_Witness ==
    \E i \in DOMAIN rankReqs :
        /\ Aggregated(i)
        /\ Len(rankReqs[i].result.val) = 2
        /\ SameScore(rankReqs[i].result.val[1], rankReqs[i].result.val[2])
        /\ rankReqs[i].result.val[1].vote_count = 1
        /\ rankReqs[i].result.val[2].vote_count = 1
        /\ rankReqs[i].result.val[1].photo_id = Str(1)
        /\ rankReqs[i].result.val[2].photo_id = Str(2)

----------------------------------------------------------------------------
(* C36: in every reachable state of every import job record (local, upload *)
(* or drive, also after partial failures and after a top-level failure),   *)
(* processed_photos <= total_photos.                                       *)
C36_ProcessedAtMostTotal ==
    \A j \in 1..Len(import_jobs) :
        JobOf(j).processed_photos <= JobOf(j).total_photos

\* a drive job failed at the top level after a batch update that counted a
\* failed item, where processed_photos has caught up with total_photos
C36_Witness ==
    \E k \in DOMAIN bgTasks :
        /\ bgTasks[k].pc = "crashed"
        /\ JobOf(bgTasks[k].job_id).status = "failed"
        /\ JobOf(bgTasks[k].job_id).failed_photos = Some(1)
        /\ JobOf(bgTasks[k].job_id).processed_photos
              = JobOf(bgTasks[k].job_id).total_photos
        /\ JobOf(bgTasks[k].job_id).processed_photos > DRIVE_BATCH_SIZE

----------------------------------------------------------------------------
\* every vote request sent so far had been answered when ranking call i started
StartedAfterAllVoteChanges(i) ==
    \A v \in DOMAIN voteReqs :
        voteReqs[v].pc # "idle" => v \in rankReqs[i].votes_returned

\* the ranking of a room over the photos and votes now in the store
RankingsNow(room_id) ==
    Rankings(ToList(FindByRoom(photos, room_id), PhotosListLimit),
             ToList(FindByRoom(votes, room_id), VotesListLimit))

(* C37: after create_vote or undo_vote for a room has returned, every      *)
(* computeRankings call for the room that starts afterwards returns scores *)
(* and vote counts that reflect that vote change, for every interleaving   *)
(* with computeRankings calls that had read the votes before the change    *)
(* and store their result in the cache after the invalidation.             *)
C37_RankingsAfterVoteReflectIt ==
    \A i \in DOMAIN rankReqs :
        /\ rankReqs[i].pc = "done"
        /\ StartedAfterAllVoteChanges(i)
        => rankReqs[i].result.val = RankingsNow(rankReqs[i].room_id)

----------------------------------------------------------------------------
\* no entry of the room is left in the two caches
RoomCachesEmpty(room_id, pc, rc) ==
    /\ RankingsKey(room_id) \notin DOMAIN rc.store
    /\ \A k \in DOMAIN pc.store : ~IsLiteralPrefix(PhotosPrefix(room_id), k)

(* C38: every import entry point that returns successfully after inserting *)
(* at least one ready photo into a room (local, upload, small drive import *)
(* and the split drive path that answers processing) has, by the time it   *)
(* returns, removed the room's ranking cache entry and all of its          *)
(* photo-listing cache entries.                                            *)
C38_CachesInvalidatedAtReturn ==
    [][\A i \in DOMAIN importReqs :
          /\ importReqs[i].pc # "done"
          /\ importReqs'[i].pc = "done"
          /\ importReqs'[i].response.val.status_code = 200
          /\ \E n \in 1..Len(photos') :
                photos'[n].by_job = importReqs'[i].job_id /\ Ready(photos'[n])
          => RoomCachesEmpty(importReqs'[i].req.val.room_id,
                             photos_cache', rankings_cache')]_vars

----------------------------------------------------------------------------
\* the keys of the entries of a room in either cache
KeysOfRoom(room_id, c) ==
    {k \in DOMAIN c.store \cup DOMAIN c.expiry :
        k = RankingsKey(room_id) \/ IsLiteralPrefix(PhotosPrefix(room_id), k)}

\* the entries of a room are the same in c and d, value and expiry
SameRoomEntries(room_id, c, d) ==
    /\ KeysOfRoom(room_id, c) = KeysOfRoom(room_id, d)
    /\ \A k \in KeysOfRoom(room_id, c) :
          d.store[k] = c.store[k] /\ d.expiry[k] = c.expiry[k]

(* C39: operations on one room never touch another room's cache entries:   *)
(* create_vote, undo_vote, any import and any batch of a Continuation Task *)
(* for room "1" leave every ranking cache entry and every photo-listing    *)
(* cache entry keyed for room "12" unchanged, value and expiry.            *)
C39_OtherRoomEntriesKept ==
    [][/\ SameRoomEntries(R2, photos_cache, photos_cache')
       /\ SameRoomEntries(R2, rankings_cache, rankings_cache')]_vars

\* the task, an upload or import and a vote of room "1" have invalidated: the
\* entries of room "1" are gone, those of room "12" are there
C39_Witness ==
    /\ KeysOfRoom(R1, photos_cache) = {}
    /\ KeysOfRoom(R1, rankings_cache) = {}
    /\ KeysOfRoom(R2, photos_cache) = {PhotosKey(R2, <<"0">>, <<"5">>)}
    /\ KeysOfRoom(R2, rankings_cache) = {RankingsKey(R2)}
    /\ photos_cache.expiry[PhotosKey(R2, <<"0">>, <<"5">>)] = PhotosTtl
    /\ \E k \in DOMAIN bgTasks : bgTasks[k].pc = "done"
    /\ \E v \in DOMAIN voteReqs : voteReqs[v].message = "Vote undone"
    /\ now > 0

====
